---- MODULE Spec2Model ----
(***************************************************************************)
(* PeakRMSCompressorWorkbench: the offline metrics extraction              *)
(* (MetricsExtractionEngine::run on a worker thread), the editor handler   *)
(* that starts it, the real-time callback that shares the two Compressor   *)
(* instances with it, and Metrics' input validation.                       *)
(*                                                                         *)
(* Three threads are modelled: the message thread (editor handlers and     *)
(* the callAsync completion callback), the extraction worker               *)
(* (std::thread running run) and the audio thread (processBlock).          *)
(* progress is kept in tenths: 0, 3, 6, 8, 10 stand for 0.0 .. 1.0.        *)
(*                                                                         *)
(* The components are also driven on their own: the engine (SpecEngine),   *)
(* Metrics (SpecMetrics), one Compressor's signal path (SpecCompressor),   *)
(* the GainComputer (SpecGain), the parameters with the report of a run    *)
(* (SpecParams), DataExport on the output folder (SpecExport), the          *)
(* LevelDetector (SpecDetector), Metrics' mean energy (SpecEnergy) and the *)
(* engine's chunk loop with the samples (SpecChunks).  SpecLive is the     *)
(* program with its threads scheduled fairly.                              *)
(*                                                                         *)
(* Samples, levels and coefficients are exact fractions <<n, d>>; a gain   *)
(* is written as its level in dB, <<-1, 0>> standing for the gain 0.       *)
(***************************************************************************)
EXTENDS Integers, Sequences, FiniteSets, TLC

\* ---------------------------------------------------------------- bounds
\* Largest number of extraction worker threads the editor starts.
MaxRuns == 2
\* Largest sample count of a loaded file.
MaxSamples == 2
\* Largest chunk size the engine is configured with (cfg.chunkSize).
MaxChunkSize == 2
\* Largest channel count a file on disk reports to the reader.
MaxFileChannels == 3
\* Largest sample count of a buffer handed to Metrics directly.
MaxMetricSamples == 2

\* ------------------------------------------------------------- constants
CompressorIds == {"peakCompressor", "rmsCompressor"}

BufferNames == {"uncompressedSignal", "peakCompressedSignal",
                "peakGainReductionSignal", "rmsCompressedSignal",
                "rmsGainReductionSignal"}

\* Sample rate the host passes to prepareToPlay.
HostSampleRates == {44100}

\* Sample rate a reader reports for the file.
FileSampleRates == {48000}

\* samplesPerBlock values the host passes to prepareToPlay.
BlockSizes == {4}

\* The one path the file chooser can return; "" is juce::File{}.
InputFile == "in.wav"

EmptyFile == ""

NoThread == 0

ThreadIds == 1..MaxRuns

\* Error texts of the loader, the exporter and run's catch blocks.
ErrFileMissing == "File does not exist."

ErrNoReader == "Unable to create reader."

ErrChannels == "Only mono and stereo audio files are supported."

ErrFolder == "Failed to create output folder: "

ErrTextStream == "Failed to open text stream for: "

ErrWavRate == "Invalid sample rate for WAV export."

ErrWavWriter == "Failed to create WAV writer for: "

ErrBadAlloc == "std::bad_alloc"

ErrUnknown == "Unknown error during metrics extraction"

NoError == ""

\* Points at which DataExport::exportAll can fail.
ExportFailures == {"none", "folder", "text", "peakWav", "rmsWav"}

ProgressValues == {0, 3, 6, 8, 10}

VARIABLES
    fileOnDisk,      \* InputFile exists as a file
    compressor,      \* the two Compressor instances of the processor
    procIsMuted,     \* processor: isMuted
    paramPower,      \* APVTS value of "power"
    cfgChunkSize,    \* engine: cfg.chunkSize
    processing,      \* engine: std::atomic<bool> processing
    progress,        \* engine: std::atomic<double> progress, in tenths
    selectedFile,    \* engine: selectedFile
    fileSampleRate,  \* engine: fileSampleRate
    signals,         \* engine: the five AudioBuffers, as channel/sample counts
    metrics,         \* Metrics: the three CompressionMetrics records
    thread,          \* the extraction worker threads ever started
    extractionThread,\* editor: the std::thread object (id joined on next start)
    pcMsg,           \* message thread: position inside handleExtractMetrics
    chosenFile,      \* handleExtractMetrics: file returned by the chooser
    pendingCallbacks,\* completion callbacks posted with callAsync, not yet run
    pcRT,            \* audio thread: compressor whose process() body is running
    powerToggle,     \* editor: powerButton toggle state
    powerEnabled,    \* editor: powerButton enabled
    extractEnabled,  \* editor: extractMetricsButton enabled
    muteToggle,      \* editor: muteButton toggle state
    edIsMuted,       \* editor: isMuted
    progressBarVisible,
    crashed,         \* the process was terminated
    extractTick,     \* flips at every Metrics::extractMetrics call
    dspCompressor,   \* a Compressor driven on its own: its signal path
    lastCall,        \* the last call into that Compressor
    gainComputer,    \* a GainComputer driven on its own
    gainCall,        \* the last applyCompression call: input and result
    apvts,           \* the twelve compression parameters of the value tree
    paramCompressor, \* the settings the two compressors hold
    paramChanges,    \* number of parameter changes made
    rmsSwitch,       \* processor: isRMSMode, the RMS switch
    exportDisk,      \* output folder: file name -> content
    exportFolder,    \* the output folder exists
    lastExport,      \* the last exportAll call and its result
    reportRun,       \* a run's passes: settings used, and what was reported
    detector,        \* a LevelDetector driven on its own
    detectorCall,    \* the last call into that LevelDetector
    energyCall,      \* the last Metrics::getAverageEnergy call
    chunkRun         \* one processBufferInChunks call, sample by sample

\* State of the components that are also exercised on their own.
unitVars == <<dspCompressor, lastCall, gainComputer, gainCall,
              apvts, paramCompressor, paramChanges, rmsSwitch, reportRun,
              exportDisk, exportFolder, lastExport,
              detector, detectorCall, energyCall, chunkRun>>

vars == <<fileOnDisk, compressor, procIsMuted, paramPower,
          cfgChunkSize, processing, progress, selectedFile, fileSampleRate,
          signals, metrics, thread, extractionThread, pcMsg, chosenFile,
          pendingCallbacks, pcRT, powerToggle, powerEnabled,
          extractEnabled, muteToggle, edIsMuted, progressBarVisible, crashed,
          extractTick, unitVars>>

engineVars == <<processing, progress, selectedFile, fileSampleRate, signals>>

editorVars == <<pcMsg, chosenFile, powerToggle, powerEnabled,
                extractEnabled, muteToggle, edIsMuted, progressBarVisible,
                extractionThread, pendingCallbacks>>

processorVars == <<procIsMuted, paramPower>>

\* ------------------------------------------------------------ data model
Min(a, b) == IF a < b THEN a ELSE b

\* juce::AudioBuffer<float>, by its dimensions.
Buffer(ch, n) == [numChannels |-> ch, numSamples |-> n]

EmptyBuffer == Buffer(0, 0)

\* juce::dsp::ProcessSpec{sampleRate, maximumBlockSize, numChannels}
ProcessSpec(rate, block) == [sampleRate |-> rate, maximumBlockSize |-> block]

\* Compressor's procSpec{ -1, 0, 0 } before prepare.
UnpreparedSpec == ProcessSpec(-1, 0)

\* A Compressor as constructed: not bypassed, nothing prepared.
NewCompressor ==
    [bypassed |-> FALSE,
     procSpec |-> UnpreparedSpec,
     active   |-> UnpreparedSpec]

\* A CompressionMetrics record: the two buffer pointers (a name in signals,
\* or "null"), the tag, and what the last computation read.
NewMetricsRecord ==
    [signal |-> "null", GRSignal |-> "null", isCompressed |-> FALSE,
     computed |-> FALSE, frames |-> 0, grFrames |-> 0]

NewMetrics ==
    [uncompressedMetrics |-> NewMetricsRecord,
     peakMetrics |-> NewMetricsRecord,
     rmsMetrics |-> NewMetricsRecord]

\* A worker thread that has not been started.
NewThread ==
    [pc |-> "unborn", file |-> EmptyFile, start |-> 0, calls |-> {},
     thrown |-> NoError, loaderError |-> NoError, exportError |-> NoError,
     loadFailed |-> FALSE, exportFailed |-> FALSE]

\* Positions of a worker inside MetricsExtractionEngine::run.
RunPositions == {"check", "load", "compress",
                 "peak_prepare", "peak_chunks", "rms_prepare", "rms_chunks",
                 "metrics", "export"}

InRun(t) == thread[t].pc \in RunPositions

\* A worker that exists and has not exited.
Alive(t) == thread[t].pc \notin {"unborn", "exited"}

\* ------------------------------------------------------------ the loader
\* AudioFileLoader::loadAudioFile: the file must exist, a reader must be
\* created for it, and the reader must report one or two channels.
loadAudioFile_anyChannels(exists, readerOk, channels, samples, rate) ==
    IF ~exists
      THEN [ok |-> FALSE, error |-> ErrFileMissing,
            buffer |-> EmptyBuffer, sampleRate |-> 0]
    ELSE IF ~readerOk
      THEN [ok |-> FALSE, error |-> ErrNoReader,
            buffer |-> EmptyBuffer, sampleRate |-> 0]
    ELSE [ok |-> TRUE, error |-> NoError,
          buffer |-> Buffer(channels, samples), sampleRate |-> rate]

loadAudioFile(exists, readerOk, channels, samples, rate) ==
    IF ~exists
      THEN [ok |-> FALSE, error |-> ErrFileMissing,
            buffer |-> EmptyBuffer, sampleRate |-> 0]
    ELSE IF ~readerOk
      THEN [ok |-> FALSE, error |-> ErrNoReader,
            buffer |-> EmptyBuffer, sampleRate |-> 0]
    ELSE IF channels < 1 \/ channels > 2
      THEN [ok |-> FALSE, error |-> ErrChannels,
            buffer |-> EmptyBuffer, sampleRate |-> 0]
    ELSE [ok |-> TRUE, error |-> NoError,
          buffer |-> Buffer(channels, samples), sampleRate |-> rate]

\* ---------------------------------------------------------- the exporter
\* DataExport::exportAll: folder, then the metrics text, then (only when
\* cfg.exportWavs) the peak WAV and the RMS WAV; the first failure returns
\* false with its message.
exportAll(exportWavs, fail, sampleRateForWav) ==
    IF fail = "folder" THEN [ok |-> FALSE, error |-> ErrFolder]
    ELSE IF fail = "text" THEN [ok |-> FALSE, error |-> ErrTextStream]
    ELSE IF ~exportWavs THEN [ok |-> TRUE, error |-> NoError]
    ELSE IF sampleRateForWav <= 0 THEN [ok |-> FALSE, error |-> ErrWavRate]
    ELSE IF fail = "peakWav" THEN [ok |-> FALSE, error |-> ErrWavWriter]
    ELSE IF fail = "rmsWav" THEN [ok |-> FALSE, error |-> ErrWavWriter]
    ELSE [ok |-> TRUE, error |-> NoError]

\* -------------------------------------------------------- the compressor
\* Compressor::prepare
prepare(c, ps) == [c EXCEPT !.procSpec = ps, !.active = ps]

\* Compressor::setPower
setPower(c, newPower) == [c EXCEPT !.bypassed = newPower]

\* Compressor::resetSizeSignals: scratch buffers back to the prepared block.
resetSizeSignals(c) ==
    [c EXCEPT !.active.maximumBlockSize = c.procSpec.maximumBlockSize]

\* Compressor::prepareForMetricsExtraction: detector and scratch buffers are
\* re-targeted to the file's sample rate and the chunk size.
prepareForMetricsExtraction(c, ps) == [c EXCEPT !.active = ps]

\* Compressor::prepareForRealTimeProcessing: back to the real-time spec.
prepareForRealTimeProcessing(c) == [c EXCEPT !.active = c.procSpec]

\* The compressor is in its real-time configuration.
RealTimeReady(c) == c.active = c.procSpec

\* --------------------------------------------------------------- Metrics
setUncompressedSignal(m, p) ==
    [m EXCEPT !.uncompressedMetrics.signal = p,
              !.uncompressedMetrics.isCompressed = FALSE]

setPeakCompressedSignal(m, p) ==
    [m EXCEPT !.peakMetrics.signal = p, !.peakMetrics.isCompressed = TRUE]

setRMSCompressedSignal(m, p) ==
    [m EXCEPT !.rmsMetrics.signal = p, !.rmsMetrics.isCompressed = TRUE]

setPeakGainReductionSignal(m, p) == [m EXCEPT !.peakMetrics.GRSignal = p]

setRMSGainReductionSignal(m, p) == [m EXCEPT !.rmsMetrics.GRSignal = p]

\* The five pointers in the order validateSignals compares them.
MetricPointers(m) ==
    <<m.uncompressedMetrics.signal, m.peakMetrics.signal, m.rmsMetrics.signal,
      m.peakMetrics.GRSignal, m.rmsMetrics.GRSignal>>

\* Metrics::validateSignals
validateSignals_noSampleCount(m, store) ==
    LET p == MetricPointers(m) IN
    IF \E i \in 1..5 : p[i] = "null" THEN FALSE
    ELSE IF \E i \in 1..5 : store[p[i]].numSamples = 0 THEN FALSE
    ELSE \A i \in 1..4 :
             store[p[i]].numChannels = store[p[i + 1]].numChannels

validateSignals(m, store) ==
    LET p == MetricPointers(m) IN
    IF \E i \in 1..5 : p[i] = "null" THEN FALSE
    ELSE IF \E i \in 1..5 : store[p[i]].numSamples = 0 THEN FALSE
    ELSE LET sameNumOfChannels ==
                 \A i \in 1..4 :
                     store[p[i]].numChannels = store[p[i + 1]].numChannels
             sameNumOfSamples ==
                 \A i \in 1..4 :
                     store[p[i]].numSamples = store[p[i + 1]].numSamples
         IN sameNumOfChannels /\ sameNumOfSamples

\* The computeMetrics lambda of extractMetrics: every metric of the record
\* is recomputed over numSamples * numChannels values of its signal, and a
\* compressed record also reads its gain-reduction signal.
computeMetrics(rec, store) ==
    [rec EXCEPT
        !.computed = TRUE,
        !.frames = store[rec.signal].numSamples * store[rec.signal].numChannels,
        !.grFrames = IF rec.isCompressed
                       THEN store[rec.GRSignal].numSamples
                                * store[rec.GRSignal].numChannels
                       ELSE rec.grFrames]

\* Metrics::extractMetrics
extractMetrics(m, store) ==
    IF ~validateSignals(m, store) THEN m
    ELSE [uncompressedMetrics |-> computeMetrics(m.uncompressedMetrics, store),
          peakMetrics |-> computeMetrics(m.peakMetrics, store),
          rmsMetrics |-> computeMetrics(m.rmsMetrics, store)]

\* MetricsExtractionEngine::getMetrics: hand the five engine buffers over.
getMetrics(m, store) ==
    extractMetrics(
        setRMSCompressedSignal(
            setRMSGainReductionSignal(
                setPeakCompressedSignal(
                    setPeakGainReductionSignal(
                        setUncompressedSignal(m, "uncompressedSignal"),
                        "peakGainReductionSignal"),
                    "peakCompressedSignal"),
                "rmsGainReductionSignal"),
            "rmsCompressedSignal"),
        store)

\* ------------------------------------------------- the extraction worker
\* run's catch (const std::exception& e): rethrown with e.what().
rethrow_unknown(what) == ErrUnknown

rethrow_noMessage(what) == NoError

rethrow(what) == what

\* run throws out of the worker's lambda, which catches nothing: the thread
\* function ends by exception and std::terminate ends the process.
Throw(t, what, called) ==
    /\ thread' = [thread EXCEPT ![t].pc = "threw",
                                ![t].thrown = rethrow(what),
                                ![t].calls = called]
    /\ crashed' = TRUE

\* compressAudioFile's setSize calls: the four result buffers get the shape
\* of the uncompressed signal.
compressedShapes_keepsGainReduction(store) ==
    [b \in BufferNames |->
        IF b = "rmsGainReductionSignal"
          THEN store[b]
          ELSE Buffer(store["uncompressedSignal"].numChannels,
                      store["uncompressedSignal"].numSamples)]

compressedShapes(store) ==
    [b \in BufferNames |->
        Buffer(store["uncompressedSignal"].numChannels,
               store["uncompressedSignal"].numSamples)]

CompressedBufferOf(c) ==
    IF c = "peakCompressor" THEN "peakCompressedSignal" ELSE "rmsCompressedSignal"

Stage(c, step) ==
    (IF c = "peakCompressor" THEN "peak_" ELSE "rms_") \o step

\* The value run stores in progress when a stage is done (lines 55, 78, 83,
\* 88 and 100), in tenths.
ProgressAfter_metricsFirst(stage) ==
    CASE stage = "start" -> 0
      [] stage = "load" -> 3
      [] stage = "compress" -> 8
      [] stage = "metrics" -> 6
      [] stage = "export" -> 10

ProgressAfter(stage) ==
    CASE stage = "start" -> 0
      [] stage = "load" -> 3
      [] stage = "compress" -> 6
      [] stage = "metrics" -> 8
      [] stage = "export" -> 10

\* run, line 62: the file run refuses to work on.
fileRejected_emptyOnly(file, exists) == file = EmptyFile

fileRejected(file, exists) == file = EmptyFile \/ ~exists

\* run, lines 54-57: processing and progress are set and the file is stored.
Run_Entry(t) ==
    /\ ~crashed
    /\ thread[t].pc = "spawned"
    /\ processing' = TRUE
    /\ progress' = ProgressAfter("start")
    /\ selectedFile' = thread[t].file
    /\ thread' = [thread EXCEPT ![t].pc = "check"]
    /\ UNCHANGED <<fileOnDisk, compressor, processorVars, cfgChunkSize,
                   fileSampleRate, signals, metrics, editorVars, pcRT,
                   crashed, extractTick>>
    /\ UNCHANGED unitVars

\* run, lines 62-66: an empty or missing file ends the run at once.
Run_CheckFile(t) ==
    /\ ~crashed
    /\ thread[t].pc = "check"
    /\ IF fileRejected(selectedFile, fileOnDisk)
         THEN /\ processing' = FALSE
              /\ thread' = [thread EXCEPT ![t].pc = "returned"]
         ELSE /\ thread' = [thread EXCEPT ![t].pc = "load"]
              /\ UNCHANGED processing
    /\ UNCHANGED <<fileOnDisk, compressor, processorVars, cfgChunkSize,
                   progress, selectedFile, fileSampleRate, signals, metrics,
                   editorVars, pcRT, crashed, extractTick>>
    /\ UNCHANGED unitVars

\* run, lines 68-78: load the whole file.
Run_Load(t) ==
    /\ ~crashed
    /\ thread[t].pc = "load"
    /\ \E readerOk \in BOOLEAN, channels \in 0..MaxFileChannels,
          samples \in 0..MaxSamples, rate \in FileSampleRates :
         LET loaded == loadAudioFile(fileOnDisk, readerOk, channels, samples, rate)
             called == thread[t].calls \cup {"loader"}
         IN IF ~loaded.ok
              THEN /\ thread' = [thread EXCEPT
                                   ![t].pc = "threw",
                                   ![t].thrown = rethrow(loaded.error),
                                   ![t].loaderError = loaded.error,
                                   ![t].loadFailed = TRUE,
                                   ![t].calls = called]
                   /\ crashed' = TRUE
                   /\ UNCHANGED <<signals, fileSampleRate, progress>>
              ELSE /\ signals' = [signals EXCEPT
                                    !["uncompressedSignal"] = loaded.buffer]
                   /\ fileSampleRate' = loaded.sampleRate
                   /\ progress' = ProgressAfter("load")
                   /\ thread' = [thread EXCEPT ![t].pc = "compress",
                                               ![t].calls = called]
                   /\ UNCHANGED crashed
    /\ UNCHANGED <<fileOnDisk, compressor, processorVars, cfgChunkSize,
                   processing, selectedFile, metrics, editorVars, pcRT,
                   extractTick>>
    /\ UNCHANGED unitVars

\* compressAudioFile, lines 117-130: size the four result buffers and copy
\* the uncompressed signal into the two audio ones.  An allocation may fail.
Run_CompressAudioFile(t) ==
    /\ ~crashed
    /\ thread[t].pc = "compress"
    /\ \E allocated \in BOOLEAN :
         IF allocated
           THEN /\ signals' = compressedShapes(signals)
                /\ thread' = [thread EXCEPT ![t].pc = "peak_prepare"]
                /\ UNCHANGED crashed
           ELSE /\ Throw(t, ErrBadAlloc, thread[t].calls)
                /\ UNCHANGED signals
    /\ UNCHANGED <<fileOnDisk, compressor, processorVars, cfgChunkSize,
                   processing, progress, selectedFile, fileSampleRate, metrics,
                   editorVars, pcRT, extractTick>>
    /\ UNCHANGED unitVars

\* processBufferInChunks, lines 141-150: re-target the compressor and
\* allocate the chunk buffer.
Run_PrepareChunks(t, c) ==
    /\ ~crashed
    /\ thread[t].pc = Stage(c, "prepare")
    /\ compressor' = [compressor EXCEPT ![c] =
           prepareForMetricsExtraction(@, ProcessSpec(fileSampleRate, cfgChunkSize))]
    /\ \E allocated \in BOOLEAN :
         IF allocated
           THEN /\ thread' = [thread EXCEPT
                       ![t].pc = Stage(c, "chunks"), ![t].start = 0,
                       ![t].calls = @ \cup {c}]
                /\ UNCHANGED crashed
           ELSE Throw(t, ErrBadAlloc, thread[t].calls \cup {c})
    /\ UNCHANGED <<fileOnDisk, processorVars, cfgChunkSize, engineVars, metrics,
                   editorVars, pcRT, extractTick>>
    /\ UNCHANGED unitVars

\* processBufferInChunks, lines 152-175: one iteration of the chunk loop.
\* setSidechainSignal reads channel 1 of the chunk, which a mono chunk does
\* not have: the read either faults or goes on with whatever it found.
Run_Chunk(t, c) ==
    /\ ~crashed
    /\ thread[t].pc = Stage(c, "chunks")
    /\ thread[t].start < signals[CompressedBufferOf(c)].numSamples
    /\ \E allocated \in BOOLEAN, faults \in BOOLEAN :
         IF signals[CompressedBufferOf(c)].numChannels < 2 /\ faults
           THEN /\ crashed' = TRUE
                /\ UNCHANGED thread
         ELSE IF ~allocated
           THEN Throw(t, ErrBadAlloc, thread[t].calls)
         ELSE /\ thread' = [thread EXCEPT ![t].start = @ + cfgChunkSize]
              /\ UNCHANGED crashed
    /\ UNCHANGED <<fileOnDisk, compressor, processorVars, cfgChunkSize,
                   engineVars, metrics, editorVars, pcRT, extractTick>>
    /\ UNCHANGED unitVars

\* processBufferInChunks, line 178, and for the RMS pass run's line 83.
Run_Restore(t, c) ==
    /\ ~crashed
    /\ thread[t].pc = Stage(c, "chunks")
    /\ thread[t].start >= signals[CompressedBufferOf(c)].numSamples
    /\ compressor' = [compressor EXCEPT ![c] = prepareForRealTimeProcessing(@)]
    /\ IF c = "peakCompressor"
         THEN /\ thread' = [thread EXCEPT ![t].pc = "rms_prepare"]
              /\ UNCHANGED progress
         ELSE /\ thread' = [thread EXCEPT ![t].pc = "metrics"]
              /\ progress' = ProgressAfter("compress")
    /\ UNCHANGED <<fileOnDisk, processorVars, cfgChunkSize, processing,
                   selectedFile, fileSampleRate, signals, metrics, editorVars,
                   pcRT, crashed, extractTick>>
    /\ UNCHANGED unitVars

\* run, lines 86-88: the metrics stage.
Run_GetMetrics(t) ==
    /\ ~crashed
    /\ thread[t].pc = "metrics"
    /\ metrics' = getMetrics(metrics, signals)
    /\ extractTick' = ~extractTick
    /\ progress' = ProgressAfter("metrics")
    /\ thread' = [thread EXCEPT ![t].pc = "export", ![t].calls = @ \cup {"metrics"}]
    /\ UNCHANGED <<fileOnDisk, compressor, processorVars, cfgChunkSize,
                   processing, selectedFile, fileSampleRate, signals,
                   editorVars, pcRT, crashed>>
    /\ UNCHANGED unitVars

\* run, lines 91-111: build the report, export, and finish.
Run_Export(t) ==
    /\ ~crashed
    /\ thread[t].pc = "export"
    /\ \E exportWavs \in BOOLEAN, fail \in ExportFailures :
         LET exported == exportAll(exportWavs, fail, fileSampleRate)
             called == thread[t].calls \cup {"exporter"}
         IN IF ~exported.ok
              THEN /\ thread' = [thread EXCEPT
                                   ![t].pc = "threw",
                                   ![t].thrown = rethrow(exported.error),
                                   ![t].exportError = exported.error,
                                   ![t].exportFailed = TRUE,
                                   ![t].calls = called]
                   /\ crashed' = TRUE
                   /\ UNCHANGED <<progress, processing>>
              ELSE /\ progress' = ProgressAfter("export")
                   /\ processing' = FALSE
                   /\ thread' = [thread EXCEPT ![t].pc = "returned",
                                               ![t].calls = called]
                   /\ UNCHANGED crashed
    /\ UNCHANGED <<fileOnDisk, compressor, processorVars, cfgChunkSize,
                   selectedFile, fileSampleRate, signals, metrics, editorVars,
                   pcRT, extractTick>>
    /\ UNCHANGED unitVars

\* The worker's lambda after run returned: the completion callback is
\* posted to the message thread and the thread ends.
Thread_Finish(t) ==
    /\ ~crashed
    /\ thread[t].pc = "returned"
    /\ pendingCallbacks' = pendingCallbacks + 1
    /\ thread' = [thread EXCEPT ![t] = [NewThread EXCEPT !.pc = "exited"]]
    /\ UNCHANGED <<fileOnDisk, compressor, processorVars, cfgChunkSize,
                   engineVars, metrics, extractionThread, pcMsg, chosenFile,
                   pcRT, powerToggle, powerEnabled, extractEnabled,
                   muteToggle, edIsMuted, progressBarVisible, crashed,
                   extractTick>>
    /\ UNCHANGED unitVars

\* ---------------------------------------------------- the message thread
\* Editor::updateParameterState, as far as the extraction is concerned: the
\* extract button follows the power button.
updateParameterState(toggle) == toggle

\* extractionThread.join() returns: there is no joinable thread, or the
\* thread it holds has run to its end.
joinReturns_noWait == TRUE

joinReturns ==
    IF extractionThread = NoThread
      THEN TRUE
      ELSE thread[extractionThread].pc = "exited"

\* What AudioFileLoader::chooseAudioFile can return: nothing (cancelled or
\* not a file), or the chosen file.
chooseAudioFile == {EmptyFile} \cup (IF fileOnDisk THEN {InputFile} ELSE {})

\* handleExtractMetrics, lines 344-384: reject while a run is processing,
\* mute, ask for a file, lock the UI and bypass both compressors.
HandleExtractMetrics_Begin ==
    /\ ~crashed
    /\ pcMsg = "idle"
    /\ extractEnabled
    /\ \E t \in ThreadIds : thread[t].pc = "unborn"
    /\ IF processing
         THEN UNCHANGED <<compressor, procIsMuted, pcMsg, chosenFile,
                          powerToggle, powerEnabled, extractEnabled,
                          muteToggle, edIsMuted, progressBarVisible>>
         ELSE \E file \in chooseAudioFile :
                /\ edIsMuted' = muteToggle
                /\ IF file = EmptyFile
                     THEN /\ procIsMuted' = IF muteToggle THEN procIsMuted ELSE FALSE
                          /\ UNCHANGED <<compressor, pcMsg, chosenFile,
                                         powerToggle, powerEnabled,
                                         extractEnabled, muteToggle,
                                         progressBarVisible>>
                     ELSE /\ muteToggle' = TRUE
                          /\ procIsMuted' = IF muteToggle THEN procIsMuted ELSE TRUE
                          /\ powerToggle' = FALSE
                          /\ powerEnabled' = FALSE
                          /\ extractEnabled' = updateParameterState(FALSE)
                          /\ compressor' = [c \in CompressorIds |->
                                               setPower(compressor[c], TRUE)]
                          /\ progressBarVisible' = TRUE
                          /\ chosenFile' = file
                          /\ pcMsg' = "join"
    /\ UNCHANGED <<fileOnDisk, paramPower, cfgChunkSize,
                   engineVars, metrics, thread, extractionThread,
                   pendingCallbacks, pcRT, crashed, extractTick>>
    /\ UNCHANGED unitVars

\* handleExtractMetrics, lines 386-417: join the previous worker, then start
\* the new one with the chosen file.
HandleExtractMetrics_Start ==
    /\ ~crashed
    /\ pcMsg = "join"
    /\ joinReturns
    /\ \E t \in ThreadIds :
         /\ thread[t].pc = "unborn"
         /\ \A u \in ThreadIds : u < t => thread[u].pc # "unborn"
         /\ thread' = [thread EXCEPT ![t] =
                          [NewThread EXCEPT !.pc = "spawned", !.file = chosenFile]]
         /\ extractionThread' = t
    /\ pcMsg' = "idle"
    /\ UNCHANGED <<fileOnDisk, compressor, processorVars, cfgChunkSize,
                   engineVars, metrics, chosenFile, pendingCallbacks, pcRT,
                   powerToggle, powerEnabled, extractEnabled,
                   muteToggle, edIsMuted, progressBarVisible, crashed,
                   extractTick>>
    /\ UNCHANGED unitVars

\* The callAsync lambda of handleExtractMetrics, lines 394-416.
CompletionCallback ==
    /\ ~crashed
    /\ pcMsg = "idle"
    /\ pendingCallbacks > 0
    /\ pendingCallbacks' = pendingCallbacks - 1
    /\ powerToggle' = TRUE
    /\ powerEnabled' = TRUE
    /\ IF ~edIsMuted
         THEN muteToggle' = FALSE /\ procIsMuted' = FALSE
         ELSE UNCHANGED <<muteToggle, procIsMuted>>
    /\ extractEnabled' = updateParameterState(TRUE)
    /\ compressor' = [c \in CompressorIds |-> setPower(compressor[c], FALSE)]
    /\ progressBarVisible' = FALSE
    /\ UNCHANGED <<fileOnDisk, paramPower, cfgChunkSize,
                   engineVars, metrics, thread, extractionThread, pcMsg,
                   chosenFile, pcRT, edIsMuted, crashed,
                   extractTick>>
    /\ UNCHANGED unitVars

\* The host changes "power" on the message thread: parameterChanged sets
\* the bypass of both compressors, powerButtonAttachment moves the button,
\* whose onClick runs updateParameterState.
parameterChanged_power(newValue) ==
    /\ ~crashed
    /\ pcMsg = "idle"
    /\ newValue # paramPower
    /\ paramPower' = newValue
    /\ compressor' = [c \in CompressorIds |-> setPower(compressor[c], ~newValue)]
    /\ IF powerToggle # newValue
         THEN /\ powerToggle' = newValue
              /\ extractEnabled' = updateParameterState(newValue)
         ELSE UNCHANGED <<powerToggle, extractEnabled>>
    /\ UNCHANGED <<fileOnDisk, procIsMuted, cfgChunkSize,
                   engineVars, metrics, thread, extractionThread, pcMsg,
                   chosenFile, pendingCallbacks, pcRT, powerEnabled,
                   muteToggle, edIsMuted, progressBarVisible, crashed,
                   extractTick>>
    /\ UNCHANGED unitVars

\* The input file is removed from the disk.
FileRemoved ==
    /\ ~crashed
    /\ fileOnDisk
    /\ fileOnDisk' = FALSE
    /\ UNCHANGED <<compressor, processorVars, cfgChunkSize, engineVars, metrics,
                   thread, editorVars, pcRT, crashed, extractTick>>
    /\ UNCHANGED unitVars

\* ------------------------------------------------------ the audio thread
\* Processor::prepareToPlay: both compressors are prepared with the host's
\* sample rate and block size.
prepareToPlay(sampleRate, samplesPerBlock) ==
    [c \in CompressorIds |->
        prepare(NewCompressor, ProcessSpec(sampleRate, samplesPerBlock))]

\* processBlock up to Compressor::process's test of bypassed (line 687).
\* isRMSMode, which the host may flip before any block, selects the
\* compressor the block goes to.
processBlock_Begin(isRMSMode) ==
    LET c == IF isRMSMode THEN "rmsCompressor" ELSE "peakCompressor" IN
    /\ ~crashed
    /\ pcRT = "idle"
    /\ ~compressor[c].bypassed
    /\ pcRT' = c
    /\ UNCHANGED <<fileOnDisk, compressor, processorVars, cfgChunkSize,
                   engineVars, metrics, thread, editorVars, crashed, extractTick>>
    /\ UNCHANGED unitVars

\* The body of Compressor::process (lines 688-699): resetSizeSignals and
\* the compression of the block.
processBlock_End ==
    /\ ~crashed
    /\ pcRT # "idle"
    /\ compressor' = [compressor EXCEPT ![pcRT] = resetSizeSignals(@)]
    /\ pcRT' = "idle"
    /\ UNCHANGED <<fileOnDisk, processorVars, cfgChunkSize, engineVars, metrics,
                   thread, editorVars, crashed, extractTick>>
    /\ UNCHANGED unitVars

\* ------------------------------------------------------ the gain computer
\* Floats are kept as exact fractions <<numerator, denominator>> with a
\* positive denominator; minus infinity is <<-1, 0>>.
Rat(n, d) == <<n, d>>

NegInfinity == Rat(-1, 0)

RatEq(a, b) == a[1] * b[2] = b[1] * a[2]

RatLe(a, b) == a[1] * b[2] <= b[1] * a[2]

RatNeg(a) == Rat(-a[1], a[2])

RatAdd(a, b) == Rat(a[1] * b[2] + b[1] * a[2], a[2] * b[2])

RatMul(a, b) == Rat(a[1] * b[1], a[2] * b[2])

\* a / b for b > 0.
RatDiv(a, b) == Rat(a[1] * b[2], a[2] * b[1])

\* Ratios, in tenths: 23.9 is the largest ratio that is not a limiter.
LimiterRatio == 239

\* Values handed to the setters: thresholds and knees in dB, ratios in
\* tenths (the "ratio" parameter runs from 1 to 24), levels in dB.
ThresholdValues == {-20, -12}

RatioValues == {10, 20, 40, 230, 240}

KneeValues == {0, 4, 6}

LevelValues == {-30, -24, -23, -22, -21, -20, -18, -17, -15, -12, -10, -9, -6, 0}

\* GainComputer::GainComputer
NewGainComputer ==
    [threshold |-> -20, ratio |-> Rat(20, 10), slope |-> Rat(10 - 20, 20),
     knee |-> 6, kneeHalf |-> Rat(6, 2)]

\* GainComputer::setThreshold
setThreshold(g, newTreshold) == [g EXCEPT !.threshold = newTreshold]

\* GainComputer::setRatio, newRatio in tenths: slope = 1 / newRatio - 1.
setRatio(g, newRatio) ==
    IF ~RatEq(g.ratio, Rat(newRatio, 10))
      THEN [g EXCEPT !.ratio = IF newRatio > LimiterRatio THEN NegInfinity
                               ELSE Rat(newRatio, 10),
                     !.slope = Rat(10 - newRatio, newRatio)]
      ELSE g

setKnee_kneeOnly(g, newKnee) ==
    IF newKnee # g.knee THEN [g EXCEPT !.knee = newKnee] ELSE g

\* GainComputer::setKnee
setKnee(g, newKnee) ==
    IF newKnee # g.knee
      THEN [g EXCEPT !.knee = newKnee, !.kneeHalf = Rat(newKnee, 2)]
      ELSE g

\* GainComputer::applyCompression
applyCompression_noHalf(g, input) ==
    LET overshoot == Rat(input - g.threshold, 1)
        inKnee == RatAdd(overshoot, g.kneeHalf)
    IN IF RatLe(overshoot, RatNeg(g.kneeHalf)) THEN Rat(0, 1)
       ELSE IF RatLe(overshoot, g.kneeHalf)
         THEN RatDiv(RatMul(g.slope, RatMul(inKnee, inKnee)), Rat(g.knee, 1))
       ELSE RatMul(g.slope, overshoot)

\* The gain computer raised the level above the knee instead of lowering it.
applyCompression_upward(g, input) ==
    LET overshoot == Rat(input - g.threshold, 1)
    IN IF RatLe(overshoot, RatNeg(g.kneeHalf)) THEN Rat(0, 1)
       ELSE RatNeg(RatMul(g.slope, overshoot))

applyCompression(g, input) ==
    LET overshoot == Rat(input - g.threshold, 1)
        inKnee == RatAdd(overshoot, g.kneeHalf)
    IN IF RatLe(overshoot, RatNeg(g.kneeHalf)) THEN Rat(0, 1)
       ELSE IF ~RatLe(overshoot, RatNeg(g.kneeHalf)) /\ RatLe(overshoot, g.kneeHalf)
         THEN RatDiv(RatMul(RatMul(Rat(1, 2), g.slope), RatMul(inKnee, inKnee)),
                     Rat(g.knee, 1))
       ELSE RatMul(g.slope, overshoot)

NoGainCall == [n |-> FALSE, input |-> 0, output |-> Rat(0, 1)]

GainIdle ==
    /\ gainComputer = NewGainComputer
    /\ gainCall = NoGainCall

\* ---------------------------------------------------------- parameters
\* Largest number of parameter changes made by the host or the sliders.
MaxParamChanges == 1

ParameterNames == {"threshold", "ratio", "knee", "attack", "release", "makeup"}

Prefixes == {"peak_", "rms_"}

ParameterIds == {prefix \o name : prefix \in Prefixes, name \in ParameterNames}

\* createParameterLayout: the default of each parameter (ratios in tenths,
\* times in milliseconds).
ParameterDefault(name) ==
    CASE name = "threshold" -> 0
      [] name = "ratio" -> 30
      [] name = "knee" -> 0
      [] name = "attack" -> 50
      [] name = "release" -> 250
      [] name = "makeup" -> 0

\* Values a parameter is set to.
ParameterValues(name) ==
    CASE name = "threshold" -> {0, -12}
      [] name = "ratio" -> {30, 40}
      [] name = "knee" -> {0, 6}
      [] name = "attack" -> {50, 5}
      [] name = "release" -> {250, 100}
      [] name = "makeup" -> {0, 3}

NewParameters ==
    [id \in ParameterIds |->
        ParameterDefault(CHOOSE name \in ParameterNames :
                             \E prefix \in Prefixes : id = prefix \o name)]

\* The detector's attack and release times before any setAttack/setRelease.
UnsetTime == Rat(0, 1)

\* The settings of a Compressor as constructed: its gain computer, its
\* detector's times and its makeup gain.
NewParameterCompressor ==
    [gainComputer |-> NewGainComputer,
     attackTimeInSeconds |-> UnsetTime,
     releaseTimeInSeconds |-> UnsetTime,
     makeup |-> 0]

\* Compressor::setThreshold .. Compressor::setMakeup, by parameter name;
\* attack and release arrive in milliseconds and are stored in seconds.
setParameter(c, name, value) ==
    CASE name = "threshold" ->
             [c EXCEPT !.gainComputer = setThreshold(@, value)]
      [] name = "ratio" -> [c EXCEPT !.gainComputer = setRatio(@, value)]
      [] name = "knee" -> [c EXCEPT !.gainComputer = setKnee(@, value)]
      [] name = "attack" ->
             IF ~RatEq(c.attackTimeInSeconds, Rat(value, 1000))
               THEN [c EXCEPT !.attackTimeInSeconds = Rat(value, 1000)]
               ELSE c
      [] name = "release" ->
             IF ~RatEq(c.releaseTimeInSeconds, Rat(value, 1000))
               THEN [c EXCEPT !.releaseTimeInSeconds = Rat(value, 1000)]
               ELSE c
      [] name = "makeup" -> [c EXCEPT !.makeup = value]

\* AudioProcessor::parameterChanged, for the twelve compression parameters.
parameterChanged_kneeCrossed(cs, parameterID, newValue) ==
    CASE parameterID = "peak_threshold" ->
             [cs EXCEPT !["peakCompressor"] = setParameter(@, "threshold", newValue)]
      [] parameterID = "peak_ratio" ->
             [cs EXCEPT !["peakCompressor"] = setParameter(@, "ratio", newValue)]
      [] parameterID = "peak_knee" ->
             [cs EXCEPT !["rmsCompressor"] = setParameter(@, "knee", newValue)]
      [] parameterID = "peak_attack" ->
             [cs EXCEPT !["peakCompressor"] = setParameter(@, "attack", newValue)]
      [] parameterID = "peak_release" ->
             [cs EXCEPT !["peakCompressor"] = setParameter(@, "release", newValue)]
      [] parameterID = "peak_makeup" ->
             [cs EXCEPT !["peakCompressor"] = setParameter(@, "makeup", newValue)]
      [] parameterID = "rms_threshold" ->
             [cs EXCEPT !["rmsCompressor"] = setParameter(@, "threshold", newValue)]
      [] parameterID = "rms_ratio" ->
             [cs EXCEPT !["rmsCompressor"] = setParameter(@, "ratio", newValue)]
      [] parameterID = "rms_knee" ->
             [cs EXCEPT !["rmsCompressor"] = setParameter(@, "knee", newValue)]
      [] parameterID = "rms_attack" ->
             [cs EXCEPT !["rmsCompressor"] = setParameter(@, "attack", newValue)]
      [] parameterID = "rms_release" ->
             [cs EXCEPT !["rmsCompressor"] = setParameter(@, "release", newValue)]
      [] parameterID = "rms_makeup" ->
             [cs EXCEPT !["rmsCompressor"] = setParameter(@, "makeup", newValue)]

parameterChanged(cs, parameterID, newValue) ==
    CASE parameterID = "peak_threshold" ->
             [cs EXCEPT !["peakCompressor"] = setParameter(@, "threshold", newValue)]
      [] parameterID = "peak_ratio" ->
             [cs EXCEPT !["peakCompressor"] = setParameter(@, "ratio", newValue)]
      [] parameterID = "peak_knee" ->
             [cs EXCEPT !["peakCompressor"] = setParameter(@, "knee", newValue)]
      [] parameterID = "peak_attack" ->
             [cs EXCEPT !["peakCompressor"] = setParameter(@, "attack", newValue)]
      [] parameterID = "peak_release" ->
             [cs EXCEPT !["peakCompressor"] = setParameter(@, "release", newValue)]
      [] parameterID = "peak_makeup" ->
             [cs EXCEPT !["peakCompressor"] = setParameter(@, "makeup", newValue)]
      [] parameterID = "rms_threshold" ->
             [cs EXCEPT !["rmsCompressor"] = setParameter(@, "threshold", newValue)]
      [] parameterID = "rms_ratio" ->
             [cs EXCEPT !["rmsCompressor"] = setParameter(@, "ratio", newValue)]
      [] parameterID = "rms_knee" ->
             [cs EXCEPT !["rmsCompressor"] = setParameter(@, "knee", newValue)]
      [] parameterID = "rms_attack" ->
             [cs EXCEPT !["rmsCompressor"] = setParameter(@, "attack", newValue)]
      [] parameterID = "rms_release" ->
             [cs EXCEPT !["rmsCompressor"] = setParameter(@, "release", newValue)]
      [] parameterID = "rms_makeup" ->
             [cs EXCEPT !["rmsCompressor"] = setParameter(@, "makeup", newValue)]

\* AudioProcessor::updateCompressionMode: the compressor of the current
\* detector mode takes its six values from the value tree.
updateCompressionMode(cs, values, isRMSMode) ==
    LET c == IF isRMSMode THEN "rmsCompressor" ELSE "peakCompressor"
        prefix == IF isRMSMode THEN "rms_" ELSE "peak_"
        set(x, name) == setParameter(x, name, values[prefix \o name])
    IN [cs EXCEPT ![c] =
           set(set(set(set(set(set(@, "threshold"), "ratio"), "attack"),
                       "release"), "knee"), "makeup")]

\* MetricsExtractionEngine::getParam
getParam(values, id) == IF id \in DOMAIN values THEN values[id] ELSE 0

\* MetricsExtractionEngine::formatParameterBlock: the six numbers printed.
formatParameterBlock(values, prefix) ==
    [name \in ParameterNames |-> getParam(values, prefix \o name)]

\* Level, in dB, of the sidechain of the one file the runs work on.
FileLevel == -10

\* values: the parameters when the run started; steady: no parameter was
\* changed during the run; gainReduction: what each pass computed for the
\* file, which the metrics of the report are made of; earlier: the run
\* before this one.
NoReportRun ==
    [pc |-> "idle",
     used |-> [c \in CompressorIds |-> NewParameterCompressor],
     report |-> [prefix \in Prefixes |-> [name \in ParameterNames |-> 0]],
     gainReduction |-> [c \in CompressorIds |-> Rat(0, 1)],
     values |-> [parameters |-> NewParameters, isRMS |-> FALSE, changes |-> 0],
     steady |-> TRUE,
     earlier |-> <<>>]

ParamsIdle ==
    /\ apvts = NewParameters
    /\ paramCompressor = [c \in CompressorIds |-> NewParameterCompressor]
    /\ paramChanges = 0
    /\ rmsSwitch = FALSE
    /\ reportRun = NoReportRun

\* ------------------------------------------------- the exporter's files
\* Largest number of exportAll calls.
MaxExports == 2

\* Input files, as getFileNameWithoutExtension and the extension.
InputFiles == {[stem |-> "song", extension |-> ".wav"],
               [stem |-> "song", extension |-> ".aiff"]}

MetricsTexts == {"report A", "report B"}

\* What the output folder may hold before the first export.
OldFile == "old"
Directory == "<directory>"
PreexistingNames == {"song_Metrics.txt", "song_Metrics_2.txt"}

\* juce::File::existsAsFile: the path exists and is not a directory.
existsAsFile(disk, name) == name \in DOMAIN disk /\ disk[name] # Directory

\* The while loop of makeUniqueFile.
RECURSIVE makeUniqueFile_loop(_, _, _, _, _)
makeUniqueFile_loop(disk, baseStem, extension, unique, counter) ==
    IF existsAsFile(disk, unique)
    THEN makeUniqueFile_loop(disk, baseStem, extension,
                             baseStem \o "_" \o ToString(counter) \o extension,
                             counter + 1)
    ELSE unique

makeUniqueFile_base(disk, inputFile, suffix, extension) ==
    inputFile.stem \o "_" \o suffix \o extension

makeUniqueFile(disk, inputFile, suffix, extension) ==
    LET baseStem == inputFile.stem \o "_" \o suffix
    IN  makeUniqueFile_loop(disk, baseStem, extension, baseStem \o extension, 2)

\* An export in progress: the folder's files, whether the folder exists,
\* the result so far and the files created, in order.
NewExport(disk, folder) ==
    [disk |-> disk, folder |-> folder, ok |-> TRUE, error |-> NoError,
     written |-> <<>>]

exportFailed(x, message) == [x EXCEPT !.ok = FALSE, !.error = message]

\* juce::FileOutputStream: a new file, or the end of an existing one.
writeFile(x, name, suffix, content) ==
    [x EXCEPT !.disk = IF existsAsFile(x.disk, name)
                       THEN [x.disk EXCEPT ![name] = @ \o content]
                       ELSE (name :> content) @@ x.disk,
              !.written = Append(@, [name |-> name, suffix |-> suffix])]

ensureOutputFolder(x, created) ==
    IF x.folder THEN x
    ELSE IF created THEN [x EXCEPT !.folder = TRUE]
    ELSE exportFailed(x, ErrFolder)

\* opened: createOutputStream returned a stream.  A directory never opens.
saveText(x, file, content, opened) ==
    IF ~opened \/ (file \in DOMAIN x.disk /\ ~existsAsFile(x.disk, file))
    THEN exportFailed(x, ErrTextStream)
    ELSE writeFile(x, file, "Metrics", content)

\* The FileOutputStream is made before the writer: a refused writer may
\* leave an empty file ("noWriter") or none ("noStream").
WavOutcomes == {"written", "noWriter", "noStream"}

saveWav(x, file, suffix, sampleRate, outcome) ==
    IF sampleRate <= 0 THEN exportFailed(x, ErrWavRate)
    ELSE IF outcome = "noStream"
            \/ (file \in DOMAIN x.disk /\ ~existsAsFile(x.disk, file))
    THEN exportFailed(x, ErrWavWriter)
    ELSE IF outcome = "noWriter"
    THEN exportFailed(writeFile(x, file, suffix, ""), ErrWavWriter)
    ELSE writeFile(x, file, suffix, suffix)

exportMetricsOnly(x, inputFile, metricsText, out) ==
    LET y == ensureOutputFolder(x, out.folder)
    IN  IF ~y.ok THEN y
        ELSE saveText(y, makeUniqueFile(y.disk, inputFile, "Metrics", ".txt"),
                      metricsText, out.text)

ExportOutcomes ==
    [folder : BOOLEAN, text : BOOLEAN, peakWav : WavOutcomes,
     rmsWav : WavOutcomes]

exportWav(x, inputFile, suffix, sampleRateForWav, outcome) ==
    saveWav(x, makeUniqueFile(x.disk, inputFile, suffix, ".wav"), suffix,
            sampleRateForWav, outcome)

\* exportAll with the files of a failed export removed again.
exportAllToDisk_rollback(x, c) ==
    LET a == ensureOutputFolder(x, c.out.folder)
        b == IF a.ok
             THEN exportMetricsOnly(a, c.inputFile, c.metricsText, c.out)
             ELSE a
        peak == IF b.ok /\ c.exportWavs /\ c.peakCompressed
                THEN exportWav(b, c.inputFile, "Peak_compressed",
                               c.sampleRateForWav, c.out.peakWav)
                ELSE b
        rms == IF peak.ok /\ c.exportWavs /\ c.rmsCompressed
               THEN exportWav(peak, c.inputFile, "RMS_compressed",
                              c.sampleRateForWav, c.out.rmsWav)
               ELSE peak
    IN  IF rms.ok THEN rms ELSE [rms EXCEPT !.disk = x.disk]

\* DataExport::exportAll, on the folder's files.  c is the call: cfg.exportWavs,
\* the arguments (a buffer pointer as "not null") and the outcomes of the
\* file system operations.
exportAllToDisk(x, c) ==
    LET a == ensureOutputFolder(x, c.out.folder)
    IN  IF ~a.ok THEN a
        ELSE LET b == exportMetricsOnly(a, c.inputFile, c.metricsText, c.out)
             IN  IF ~b.ok THEN b
                 ELSE IF ~c.exportWavs THEN b
                 ELSE LET peak == IF c.peakCompressed
                                  THEN exportWav(b, c.inputFile,
                                                 "Peak_compressed",
                                                 c.sampleRateForWav,
                                                 c.out.peakWav)
                                  ELSE b
                      IN  IF ~peak.ok THEN peak
                          ELSE IF c.rmsCompressed
                          THEN exportWav(peak, c.inputFile, "RMS_compressed",
                                         c.sampleRateForWav, c.out.rmsWav)
                          ELSE peak

NoExport ==
    [n |-> 0, inputFile |-> [stem |-> "", extension |-> ""],
     metricsText |-> "", ok |-> TRUE, error |-> NoError, written |-> <<>>]

EmptyDisk == [name \in {} |-> ""]

ExportIdle ==
    /\ exportDisk = EmptyDisk
    /\ exportFolder = FALSE
    /\ lastExport = NoExport

\* ------------------------------------------------ the compressor's path
\* What a buffer holds is kept as the list of stages applied to it since it
\* was filled; the detector's state01 as the number of blocks it has smoothed
\* since prepare, up to MaxHistory.
MaxHistory == 2

\* A Compressor's signal path: the bypass flag, the detector state, the
\* side-chain scratch buffer, the caller's audio buffer, the saved
\* gain-reduction signal and maxGainReduction.
NewSignalPath ==
    [bypassed |-> FALSE, state01 |-> 0, sidechainSignal |-> <<>>,
     buffer |-> <<>>, originalSignal |-> "cleared",
     gainReductionSignal |-> <<>>, maxGainReduction |-> "zero"]

\* No call yet; n flips at every call.
NoCall == [n |-> FALSE, entry |-> "none", isRMSmode |-> FALSE]

\* Compressor::setSidechainSignal: scratch buffers cleared, input gain on
\* the audio, then the rectified maximum of the channels as side chain.
setSidechainSignal(c) ==
    [c EXCEPT !.originalSignal = "cleared",
              !.maxGainReduction = "zero",
              !.buffer = Append(@, "inputGain"),
              !.sidechainSignal = <<"abs">>]

\* GainComputer::applyCompressionToBuffer on the side chain.
applyCompressionToBuffer(c) ==
    [c EXCEPT !.sidechainSignal = Append(@, "gainComputer")]

\* LevelDetector::applyPeakDetector on the side chain.
applyPeakDetector(c) ==
    [c EXCEPT !.sidechainSignal = Append(@, "peakDetector"),
              !.state01 = Min(@ + 1, MaxHistory)]

\* LevelDetector::applyRMSDetector on the side chain.
applyRMSDetector(c) ==
    [c EXCEPT !.sidechainSignal = Append(@, "rmsDetector"),
              !.state01 = Min(@ + 1, MaxHistory)]

\* Compressor::saveGainReductionSignal: the side chain, made linear, kept.
saveGainReductionSignal(c) ==
    [c EXCEPT !.gainReductionSignal = Append(c.sidechainSignal, "toGain")]

\* Compressor::applyCompressionToInputSignal: the minimum of the side chain
\* is kept, makeup is added, and the audio is multiplied by the result.
applyCompressionToInputSignal(c) ==
    LET linear == c.sidechainSignal \o <<"makeup", "toGain">> IN
    [c EXCEPT !.maxGainReduction = "minimum",
              !.sidechainSignal = linear,
              !.originalSignal = "copied",
              !.buffer = @ \o linear \o <<"multiply">>]

\* Compressor::applyPeakCompression
applyPeakCompression_detectorFirst(c, trackGR) ==
    LET smoothed == applyCompressionToBuffer(
                        applyPeakDetector(setSidechainSignal(c)))
        tracked == IF trackGR THEN saveGainReductionSignal(smoothed) ELSE smoothed
    IN applyCompressionToInputSignal(tracked)

applyPeakCompression(c, trackGR) ==
    LET smoothed == applyPeakDetector(
                        applyCompressionToBuffer(setSidechainSignal(c)))
        tracked == IF trackGR THEN saveGainReductionSignal(smoothed) ELSE smoothed
    IN applyCompressionToInputSignal(tracked)

\* Compressor::applyRMSCompression
applyRMSCompression(c, trackGR) ==
    LET attenuation == applyCompressionToBuffer(
                           applyRMSDetector(setSidechainSignal(c)))
        tracked == IF trackGR THEN saveGainReductionSignal(attenuation)
                   ELSE attenuation
    IN applyCompressionToInputSignal(tracked)

\* Compressor::process
process_ignoresBypass(c, isRMSmode) ==
    IF ~isRMSmode THEN applyPeakCompression(c, FALSE)
    ELSE applyRMSCompression(c, FALSE)

process(c, isRMSmode) ==
    IF ~c.bypassed
      THEN IF ~isRMSmode THEN applyPeakCompression(c, FALSE)
           ELSE applyRMSCompression(c, FALSE)
      ELSE c

CompressorIdle ==
    /\ dspCompressor = NewSignalPath
    /\ lastCall = NoCall

\* ----------------------------------------------------- the level detector
\* Largest number of samples in a buffer handed to the detector.
MaxDetectorSamples == 2
\* Largest number of detector calls made after a prepare.
MaxDetectorCalls == 2

RECURSIVE GCD(_, _)
GCD(a, b) == IF b = 0 THEN a ELSE GCD(b, a % b)

\* A fraction with a positive denominator, in lowest terms.
Norm(r) ==
    LET g == GCD(IF r[1] < 0 THEN -r[1] ELSE r[1], r[2])
    IN  Rat(r[1] \div g, r[2] \div g)

RatLt(a, b) == ~RatLe(b, a)

\* a * x + (1 - a) * y
Blend(a, x, y) ==
    Norm(RatAdd(Norm(RatMul(a, x)),
                Norm(RatMul(RatAdd(Rat(1, 1), RatNeg(a)), y))))

\* exp(-1 / (fs * T)) for a positive sample rate and time: a value strictly
\* between 0 and 1.
AlphaValues == {Rat(1, 4), Rat(1, 2)}

\* LevelDetector::prepare: the two coefficients are recomputed, the state
\* is cleared.
prepareDetector(alphaAttack, alphaRelease) ==
    [alphaAttack |-> alphaAttack, alphaRelease |-> alphaRelease,
     state01 |-> Rat(0, 1)]

\* The peak detector attacks when the input is above the state instead of
\* below it.
processPeakBranched_attackAbove(d, in) ==
    [d EXCEPT !.state01 =
        IF RatLt(d.state01, in) THEN Blend(d.alphaAttack, d.state01, in)
                                ELSE Blend(d.alphaRelease, d.state01, in)]

\* LevelDetector::processPeakBranched: the detector after one sample; the
\* value returned is its state01.
processPeakBranched(d, in) ==
    [d EXCEPT !.state01 =
        IF RatLt(in, d.state01) THEN Blend(d.alphaAttack, d.state01, in)
                                ELSE Blend(d.alphaRelease, d.state01, in)]

\* The RMS detector branches as the peak detector does.
processRMSBranched_attackBelow(d, in) ==
    LET inSquared == Norm(RatMul(in, in))
    IN  [d EXCEPT !.state01 =
            IF RatLt(inSquared, d.state01)
              THEN Blend(d.alphaAttack, d.state01, inSquared)
              ELSE Blend(d.alphaRelease, d.state01, inSquared)]

\* LevelDetector::processRMSBranched: the detector after one sample; the
\* value returned is its state01, a mean square.
processRMSBranched(d, in) ==
    LET inSquared == Norm(RatMul(in, in))
    IN  [d EXCEPT !.state01 =
            IF RatLt(d.state01, inSquared)
              THEN Blend(d.alphaAttack, d.state01, inSquared)
              ELSE Blend(d.alphaRelease, d.state01, inSquared)]

\* LevelDetector::applyPeakDetector: the detector after the buffer, and the
\* buffer with every sample replaced by the state it produced.
RECURSIVE applyPeakDetectorTo(_, _)
applyPeakDetectorTo(d, src) ==
    IF src = <<>> THEN [detector |-> d, src |-> <<>>]
    ELSE LET first == processPeakBranched(d, Head(src))
             rest == applyPeakDetectorTo(first, Tail(src))
         IN  [detector |-> rest.detector,
              src |-> <<first.state01>> \o rest.src]

\* sqrtf(meanSquare) * (1 / sqrtf(2)), kept as its square: meanSquare / 2.
\* A level written this way is the square root of the fraction.
rmsLevel(meanSquare) == Norm(RatMul(meanSquare, Rat(1, 2)))

\* LevelDetector::applyRMSDetector: the detector after the buffer, and the
\* buffer with every sample replaced by the level of the state it produced
\* (each kept as its square).
RECURSIVE applyRMSDetectorTo(_, _)
applyRMSDetectorTo(d, src) ==
    IF src = <<>> THEN [detector |-> d, src |-> <<>>]
    ELSE LET first == processRMSBranched(d, Head(src))
             rest == applyRMSDetectorTo(first, Tail(src))
         IN  [detector |-> rest.detector,
              src |-> <<rmsLevel(first.state01)>> \o rest.src]

RestingDetector == prepareDetector(Rat(1, 2), Rat(1, 2))

NoDetectorCall == [n |-> 0, entry |-> "none", src |-> <<>>, out |-> <<>>]

DetectorIdle ==
    /\ detector = RestingDetector
    /\ detectorCall = NoDetectorCall

\* ------------------------------------------------------------ mean energy
\* Samples are whole multiples of 0.00005, half of silenceThreshold.
silenceThreshold == 2

Abs(x) == IF x < 0 THEN -x ELSE x

\* The inner loop of Metrics::getAverageEnergy over one channel: the sum of
\* the squares of the samples at or above the threshold.
RECURSIVE gatedSquares(_)
gatedSquares(channelData) ==
    IF channelData = <<>> THEN 0
    ELSE (IF Abs(Head(channelData)) >= silenceThreshold
            THEN Head(channelData) * Head(channelData) ELSE 0)
         + gatedSquares(Tail(channelData))

\* The outer loop: every channel of the buffer.
RECURSIVE meanSquareOf(_)
meanSquareOf(buffer) ==
    IF buffer = <<>> THEN 0
    ELSE gatedSquares(Head(buffer)) + meanSquareOf(Tail(buffer))

\* Metrics::getAverageEnergy: the gated sum over numSamples * numChannels;
\* 0/0 (not a number) for a buffer without samples.
getAverageEnergy(buffer) ==
    LET numSamples == Len(buffer[1])
        numChannels == Len(buffer)
    IN  Rat(meanSquareOf(buffer), numSamples * numChannels)

NoEnergyCall == [n |-> FALSE, buffer |-> <<>>, result |-> Rat(0, 1)]

EnergyIdle == energyCall = NoEnergyCall

\* --------------------------------------------------------- the chunk loop
\* juce::Decibels: gains at or below this level are 0, and no level is
\* reported below it.
minusInfinityDb == -100

Pow10(k) == IF k = 0 THEN 1 ELSE IF k = 1 THEN 10 ELSE IF k = 2 THEN 100
            ELSE IF k = 3 THEN 1000 ELSE IF k = 4 THEN 10000
            ELSE IF k = 5 THEN 100000 ELSE 1000000

Largest(S) == CHOOSE d \in S : \A e \in S : e <= d

\* juce::Decibels::gainToDecibels of max(level, 1e-6), for a level given by
\* its square: 20*log10(level), rounded down to a multiple of 10 dB from
\* -40 dB to 60 dB; levels under -40 dB are reported as minusInfinityDb.
gainToDecibels(power) ==
    IF power[1] >= power[2]
      THEN 10 * Largest({d \in 0..6 : power[1] >= Pow10(d) * power[2]})
    ELSE IF power[1] * Pow10(4) < power[2] THEN minusInfinityDb
    ELSE -10 * (4 - Largest({4 - d : d \in {e \in 1..4 : power[1] * Pow10(e) >= power[2]}}))

\* juce::Decibels::decibelsToGain: the gain 10^(dB/20), written as its level
\* in dB, and the gain 0 (minus infinity dB) at or below minusInfinityDb.
decibelsToGain(decibels) ==
    IF RatLe(decibels, Rat(minusInfinityDb, 1)) THEN NegInfinity
    ELSE Norm(decibels)

\* A sample: an amplitude times the gain of level db.
Sample(amp) == [amp |-> amp, db |-> Rat(0, 1)]

\* FloatVectorOperations::multiply of one sample by a linear gain.
multiply(sample, gain) ==
    IF gain = NegInfinity \/ sample.amp[1] = 0 THEN Sample(Rat(0, 1))
    ELSE [sample EXCEPT !.db = Norm(RatAdd(sample.db, gain))]

\* Compressor::setSidechainSignal: max(abs(left), right), sample by sample,
\* on the amplitudes of the chunk (a chunk is read before the loop has
\* written it, so its samples still have the gain 0 dB); the input gain is
\* 0 dB and leaves the buffer as it is.
RECURSIVE setSidechainSignalTo(_, _)
setSidechainSignalTo(left, right) ==
    IF left = <<>> THEN <<>>
    ELSE LET l == Rat(Abs(Head(left)[1]), Head(left)[2])
         IN  <<IF RatLe(l, Head(right)) THEN Head(right) ELSE l>>
             \o setSidechainSignalTo(Tail(left), Tail(right))

\* GainComputer::applyCompressionToBuffer on levels given by their squares.
applyCompressionToBufferTo(g, powers) ==
    [i \in DOMAIN powers |-> Norm(applyCompression(g, gainToDecibels(powers[i])))]

\* The squares of a buffer of amplitudes.
Squares(src) == [i \in DOMAIN src |-> Norm(RatMul(src[i], src[i]))]

\* Compressor::applyPeakCompression up to the detector: the gain computer
\* on the side chain, then the peak detector on the attenuation.
peakSideChain(c, sidechain) ==
    applyPeakDetectorTo(c.levelDetector,
                        applyCompressionToBufferTo(c.gainComputer, Squares(sidechain)))

\* Compressor::applyRMSCompression up to the gain computer: the RMS
\* detector on the side chain, then the gain computer on the level.
rmsSideChain(c, sidechain) ==
    LET level == applyRMSDetectorTo(c.levelDetector, sidechain)
    IN  [detector |-> level.detector,
         src |-> applyCompressionToBufferTo(c.gainComputer, level.src)]

\* findMinimum of a side chain of at least one sample.
findMinimum(src) == CHOOSE m \in {src[i] : i \in DOMAIN src} :
                        \A i \in DOMAIN src : RatLe(m, src[i])

\* Compressor::saveGainReductionSignal: the linear gain of the attenuation,
\* before any makeup.
gainReductionOf(attenuation) == decibelsToGain(attenuation)

\* Compressor::applyPeakCompression and applyRMSCompression with trackGR on
\* a chunk of numChannels channels whose channel 1 reads as right: the
\* Compressor afterwards, the chunk, and the gain-reduction signal.
applyCompressionTo(c, isRMS, chunkBuffer, right) ==
    LET sidechain == setSidechainSignalTo(
                         [i \in DOMAIN chunkBuffer[1] |-> chunkBuffer[1][i].amp], right)
        side == IF isRMS THEN rmsSideChain(c, sidechain)
                         ELSE peakSideChain(c, sidechain)
        gain == [i \in DOMAIN side.src |->
                    decibelsToGain(RatAdd(side.src[i], Rat(c.makeup, 1)))]
    IN  [compressor |-> [c EXCEPT !.levelDetector = side.detector,
                                  !.maxGainReduction = findMinimum(side.src)],
         sidechain |-> side.src,
         gainReductionSignal |->
             [ch \in DOMAIN chunkBuffer |->
                 [i \in DOMAIN side.src |-> gainReductionOf(side.src[i])]],
         buffer |->
             [ch \in DOMAIN chunkBuffer |->
                 [i \in DOMAIN side.src |-> multiply(chunkBuffer[ch][i], gain[i])]]]

\* Every chunk held one sample.
chunkLength_one(chunkSize, numSamples, start) == 1

\* processBufferInChunks: n = std::min(chunkSize, numSamples - start)
chunkLength(chunkSize, numSamples, start) ==
    IF chunkSize <= numSamples - start THEN chunkSize ELSE numSamples - start

\* AudioBuffer::copyFrom(ch, start, source, ch, 0, n) for every channel of
\* source.
copyFrom(dest, start, source, n) ==
    [ch \in DOMAIN dest |->
        [i \in DOMAIN dest[ch] |->
            IF ch \in DOMAIN source /\ i > start /\ i <= start + n
              THEN source[ch][i - start] ELSE dest[ch][i]]]

\* processBufferInChunks was handed the uncompressed signal itself.
audioBufferOf_inPlace(isRMS) == "uncompressedSignal"

\* compressAudioFile: the audio buffer each pass works on, a copy of the
\* uncompressed signal.
audioBufferOf(isRMS) ==
    IF isRMS THEN "rmsCompressedSignal" ELSE "peakCompressedSignal"

\* The samples start + 1 .. start + n of every channel.
chunkOf(buffer, start, n) ==
    [ch \in DOMAIN buffer |-> SubSeq(buffer[ch], start + 1, start + n)]

\* One pass of processBufferInChunks' loop body on the audio buffer named
\* audioBuffer, with right standing for channel 1 of the chunk buffer.
processChunk(run, audioBuffer, right) ==
    LET n == chunkLength(run.chunkSize, run.numSamples, run.start)
        chunkBuffer == chunkOf(run.signals[audioBuffer], run.start, n)
        r == applyCompressionTo(run.compressor, run.isRMS, chunkBuffer, right)
    IN  [run EXCEPT
            !.compressor = r.compressor,
            !.sidechain = r.sidechain,
            !.grBuffer = copyFrom(run.grBuffer, run.start, r.gainReductionSignal, n),
            !.signals = [run.signals EXCEPT ![audioBuffer] =
                            copyFrom(run.signals[audioBuffer], run.start, r.buffer, n)],
            !.chunks = Append(run.chunks, <<run.start, n>>),
            !.channels = {0, 1} \cup {ch - 1 : ch \in DOMAIN chunkBuffer},
            !.start = run.start + run.chunkSize]

NoChunkRun == [pc |-> "idle"]

ChunksIdle == chunkRun = NoChunkRun

SignalIdle == DetectorIdle /\ EnergyIdle /\ ChunksIdle

UnitIdle == CompressorIdle /\ GainIdle /\ ParamsIdle /\ ExportIdle /\ SignalIdle

\* ------------------------------------------------------ the specification
\* Everything but the file, the engine's chunk size, the buffers, Metrics
\* and the workers: the processor constructed and prepared by the host, the
\* editor open.
InitProgram ==
    /\ \E r \in HostSampleRates, b \in BlockSizes : compressor = prepareToPlay(r, b)
    /\ procIsMuted = FALSE
    /\ paramPower = TRUE
    /\ processing = FALSE
    /\ progress = 0
    /\ selectedFile = EmptyFile
    /\ fileSampleRate = 0
    /\ extractionThread = NoThread
    /\ pcMsg = "idle"
    /\ chosenFile = EmptyFile
    /\ pendingCallbacks = 0
    /\ pcRT = "idle"
    /\ powerToggle = TRUE
    /\ powerEnabled = TRUE
    /\ extractEnabled = TRUE
    /\ muteToggle = FALSE
    /\ edIsMuted = FALSE
    /\ progressBarVisible = FALSE
    /\ crashed = FALSE
    /\ extractTick = FALSE

Init ==
    /\ InitProgram
    /\ fileOnDisk = TRUE
    /\ thread = [t \in ThreadIds |-> NewThread]
    /\ cfgChunkSize \in 1..MaxChunkSize
    /\ signals = [b \in BufferNames |-> EmptyBuffer]
    /\ metrics = NewMetrics
    /\ UnitIdle

Next ==
    \/ \E t \in ThreadIds : Run_Entry(t)
    \/ \E t \in ThreadIds : Run_CheckFile(t)
    \/ \E t \in ThreadIds : Run_Load(t)
    \/ \E t \in ThreadIds : Run_CompressAudioFile(t)
    \/ \E t \in ThreadIds, c \in CompressorIds : Run_PrepareChunks(t, c)
    \/ \E t \in ThreadIds, c \in CompressorIds : Run_Chunk(t, c)
    \/ \E t \in ThreadIds, c \in CompressorIds : Run_Restore(t, c)
    \/ \E t \in ThreadIds : Run_GetMetrics(t)
    \/ \E t \in ThreadIds : Run_Export(t)
    \/ \E t \in ThreadIds : Thread_Finish(t)
    \/ HandleExtractMetrics_Begin
    \/ HandleExtractMetrics_Start
    \/ CompletionCallback
    \/ \E v \in BOOLEAN : parameterChanged_power(v)
    \/ FileRemoved
    \/ \E isRMSMode \in BOOLEAN : processBlock_Begin(isRMSMode)
    \/ processBlock_End

Spec == Init /\ [][Next]_vars

\* The steps of worker t: the thread function of handleExtractMetrics.
WorkerStep(t) ==
    \/ Run_Entry(t)
    \/ Run_CheckFile(t)
    \/ Run_Load(t)
    \/ Run_CompressAudioFile(t)
    \/ \E c \in CompressorIds : Run_PrepareChunks(t, c)
    \/ \E c \in CompressorIds : Run_Chunk(t, c)
    \/ \E c \in CompressorIds : Run_Restore(t, c)
    \/ Run_GetMetrics(t)
    \/ Run_Export(t)
    \/ Thread_Finish(t)

\* The program with its threads scheduled: a worker that can take a step
\* takes one, the message thread finishes the handler it is in, and a
\* callback posted with callAsync is run once the handlers queued before
\* it are done.
SpecLive ==
    /\ Spec
    /\ \A t \in ThreadIds : WF_vars(WorkerStep(t))
    /\ WF_vars(HandleExtractMetrics_Start)
    /\ SF_vars(CompletionCallback)

\* ------------------------------------------- Metrics on arbitrary buffers
\* Metrics::extractMetrics applied to five buffers of any shape, any one of
\* which may be missing, with the records either fresh or left by an earlier
\* extraction.
MetricShapes ==
    {Buffer(ch, n) : ch \in 1..2, n \in 0..MaxMetricSamples}

\* The records after an earlier extraction over one-channel, one-sample
\* buffers.
StaleMetrics ==
    [uncompressedMetrics |->
         [NewMetricsRecord EXCEPT !.computed = TRUE, !.frames = 1],
     peakMetrics |->
         [NewMetricsRecord EXCEPT !.computed = TRUE, !.frames = 1, !.grFrames = 1],
     rmsMetrics |->
         [NewMetricsRecord EXCEPT !.computed = TRUE, !.frames = 1, !.grFrames = 1]]

\* The five setters, each called with its buffer or with a null pointer.
setSignals(m, missing) ==
    LET ptr(b) == IF b = missing THEN "null" ELSE b IN
    setRMSCompressedSignal(
        setRMSGainReductionSignal(
            setPeakCompressedSignal(
                setPeakGainReductionSignal(
                    setUncompressedSignal(m, ptr("uncompressedSignal")),
                    ptr("peakGainReductionSignal")),
                ptr("peakCompressedSignal")),
            ptr("rmsGainReductionSignal")),
        ptr("rmsCompressedSignal"))

InitMetrics ==
    /\ InitProgram
    /\ fileOnDisk = TRUE
    /\ thread = [t \in ThreadIds |-> NewThread]
    /\ cfgChunkSize = 1
    /\ signals \in [BufferNames -> MetricShapes]
    /\ \E earlier \in {NewMetrics, StaleMetrics},
          missing \in BufferNames \cup {"none"} :
         metrics = setSignals(earlier, missing)
    /\ UnitIdle

Metrics_extractMetrics ==
    /\ metrics' = extractMetrics(metrics, signals)
    /\ extractTick' = ~extractTick
    /\ UNCHANGED <<fileOnDisk, compressor, processorVars, cfgChunkSize,
                   engineVars, thread, editorVars, pcRT, crashed>>
    /\ UNCHANGED unitVars

NextMetrics == Metrics_extractMetrics

SpecMetrics == InitMetrics /\ [][NextMetrics]_vars

\* ------------------------------------------------------- the engine alone
\* MetricsExtractionEngine::run called once, directly, with any file: an
\* empty path, a path to nothing, or a file that is there.
InitEngine ==
    /\ InitProgram
    /\ fileOnDisk \in BOOLEAN
    /\ cfgChunkSize \in 1..MaxChunkSize
    /\ signals = [b \in BufferNames |-> EmptyBuffer]
    /\ metrics = NewMetrics
    /\ UnitIdle
    /\ \E file \in {EmptyFile, InputFile} :
         thread = [t \in ThreadIds |->
                      IF t = 1
                        THEN [NewThread EXCEPT !.pc = "spawned", !.file = file]
                        ELSE NewThread]

NextEngine ==
    \/ \E t \in ThreadIds :
          \/ Run_Entry(t)
          \/ Run_CheckFile(t)
          \/ Run_Load(t)
          \/ Run_CompressAudioFile(t)
          \/ Run_GetMetrics(t)
          \/ Run_Export(t)
          \/ \E c \in CompressorIds :
                \/ Run_PrepareChunks(t, c)
                \/ Run_Chunk(t, c)
                \/ Run_Restore(t, c)
    \/ FileRemoved

SpecEngine == InitEngine /\ [][NextEngine]_vars

\* ------------------------------------------------- the compressor alone
\* One Compressor, called as the audio callback calls it (process) and as
\* the engine's chunk loop calls it (applyPeakCompression and
\* applyRMSCompression with trackGR), each time on a freshly filled buffer.
pathVars == <<dspCompressor, lastCall>>

gainVars == <<gainComputer, gainCall>>

paramVars == <<apvts, paramCompressor, paramChanges, rmsSwitch, reportRun>>

exportVars == <<exportDisk, exportFolder, lastExport>>

signalVars == <<detector, detectorCall, energyCall, chunkRun>>

programVars == <<fileOnDisk, compressor, processorVars, cfgChunkSize,
                 engineVars, metrics, thread, editorVars, pcRT, crashed,
                 extractTick>>

\* The rest of the program at rest.
ProgramIdle ==
    /\ InitProgram
    /\ fileOnDisk = TRUE
    /\ thread = [t \in ThreadIds |-> NewThread]
    /\ cfgChunkSize = 1
    /\ signals = [b \in BufferNames |-> EmptyBuffer]
    /\ metrics = NewMetrics

InitCompressor ==
    /\ ProgramIdle
    /\ UnitIdle

\* Compressor::prepare: the detector is prepared, the scratch buffers are
\* sized and cleared.
Compressor_prepare ==
    /\ dspCompressor' = [dspCompressor EXCEPT !.state01 = 0,
                                              !.sidechainSignal = <<>>,
                                              !.originalSignal = "cleared"]
    /\ UNCHANGED <<lastCall, gainVars, paramVars, programVars,
                   exportVars, signalVars>>

Compressor_setPower(newPower) ==
    /\ dspCompressor' = setPower(dspCompressor, newPower)
    /\ UNCHANGED <<lastCall, gainVars, paramVars, programVars,
                   exportVars, signalVars>>

\* The caller fills its buffer with the next block.
Compressor_fillBuffer ==
    /\ dspCompressor.buffer # <<>>
    /\ dspCompressor' = [dspCompressor EXCEPT !.buffer = <<>>]
    /\ UNCHANGED <<lastCall, gainVars, paramVars, programVars,
                   exportVars, signalVars>>

Compressor_process(isRMSmode) ==
    /\ dspCompressor.buffer = <<>>
    /\ dspCompressor' = process(dspCompressor, isRMSmode)
    /\ lastCall' = [n |-> ~lastCall.n, entry |-> "process",
                    isRMSmode |-> isRMSmode]
    /\ UNCHANGED <<gainVars, paramVars, programVars,
                   exportVars, signalVars>>

\* One iteration of the engine's chunk loop.
Compressor_chunk(isRMS) ==
    /\ dspCompressor.buffer = <<>>
    /\ dspCompressor' = IF isRMS THEN applyRMSCompression(dspCompressor, TRUE)
                        ELSE applyPeakCompression(dspCompressor, TRUE)
    /\ lastCall' = [n |-> ~lastCall.n, entry |-> "chunk", isRMSmode |-> isRMS]
    /\ UNCHANGED <<gainVars, paramVars, programVars,
                   exportVars, signalVars>>

NextCompressor ==
    \/ Compressor_prepare
    \/ \E newPower \in BOOLEAN : Compressor_setPower(newPower)
    \/ Compressor_fillBuffer
    \/ \E isRMSmode \in BOOLEAN : Compressor_process(isRMSmode)
    \/ \E isRMS \in BOOLEAN : Compressor_chunk(isRMS)

SpecCompressor == InitCompressor /\ [][NextCompressor]_vars

\* ---------------------------------------------- the gain computer alone
InitGain ==
    /\ ProgramIdle
    /\ UnitIdle

GainComputer_setThreshold(newTreshold) ==
    /\ gainComputer' = setThreshold(gainComputer, newTreshold)
    /\ UNCHANGED <<gainCall, pathVars, paramVars, programVars,
                   exportVars, signalVars>>

GainComputer_setRatio(newRatio) ==
    /\ gainComputer' = setRatio(gainComputer, newRatio)
    /\ UNCHANGED <<gainCall, pathVars, paramVars, programVars,
                   exportVars, signalVars>>

GainComputer_setKnee(newKnee) ==
    /\ gainComputer' = setKnee(gainComputer, newKnee)
    /\ UNCHANGED <<gainCall, pathVars, paramVars, programVars,
                   exportVars, signalVars>>

GainComputer_applyCompression(input) ==
    /\ gainCall' = [n |-> ~gainCall.n, input |-> input,
                    output |-> applyCompression(gainComputer, input)]
    /\ UNCHANGED <<gainComputer, pathVars, paramVars, programVars,
                   exportVars, signalVars>>

NextGain ==
    \/ \E v \in ThresholdValues : GainComputer_setThreshold(v)
    \/ \E v \in RatioValues : GainComputer_setRatio(v)
    \/ \E v \in KneeValues : GainComputer_setKnee(v)
    \/ \E v \in LevelValues : GainComputer_applyCompression(v)

SpecGain == InitGain /\ [][NextGain]_vars

\* --------------------------------------------- parameters and the report
\* The editor is open: its constructor has called updateParameterState,
\* which brought the compressor of the current detector mode in line with
\* the value tree.  From there parameters change, the detector mode is
\* switched, and one run compresses with both compressors and builds its
\* report.
InitParams ==
    /\ ProgramIdle
    /\ CompressorIdle
    /\ GainIdle
    /\ ExportIdle
    /\ SignalIdle
    /\ apvts = NewParameters
    /\ rmsSwitch \in BOOLEAN
    /\ paramCompressor =
           updateCompressionMode([c \in CompressorIds |-> NewParameterCompressor],
                                 NewParameters, rmsSwitch)
    /\ paramChanges = 0
    /\ reportRun = NoReportRun

\* The host or a slider sets a parameter; the listener is notified.
Params_setParameter(parameterID, newValue) ==
    /\ paramChanges < MaxParamChanges
    /\ newValue # apvts[parameterID]
    /\ apvts' = [apvts EXCEPT ![parameterID] = newValue]
    /\ paramCompressor' = parameterChanged(paramCompressor, parameterID, newValue)
    /\ paramChanges' = paramChanges + 1
    /\ UNCHANGED <<rmsSwitch, reportRun, pathVars, gainVars, programVars,
                   exportVars, signalVars>>

\* The power button or the RMS switch is clicked between runs:
\* updateParameterState hands the switch's state to updateCompressionMode.
Params_updateCompressionMode(newMode) ==
    /\ reportRun.pc \in {"idle", "done"}
    /\ rmsSwitch' = newMode
    /\ paramCompressor' = updateCompressionMode(paramCompressor, apvts, newMode)
    /\ UNCHANGED <<apvts, paramChanges, reportRun, pathVars, gainVars,
                   programVars, exportVars, signalVars>>

\* What a finished run leaves for the comparison with the next one.
ReportOf(r) ==
    [values |-> [r.values EXCEPT !.changes = 0], steady |-> r.steady,
     report |-> r.report, gainReduction |-> r.gainReduction]

\* compressAudioFile: the peak pass, then the RMS pass, each with the
\* settings its compressor holds.  A first run and a second one are made.
Report_compress(c) ==
    /\ IF c = "peakCompressor"
         THEN /\ \/ reportRun.pc = "idle"
                 \/ reportRun.pc = "done" /\ reportRun.earlier = <<>>
              /\ reportRun' = [reportRun EXCEPT
                     !.pc = "rms",
                     !.used[c] = paramCompressor[c],
                     !.values = [parameters |-> apvts, isRMS |-> rmsSwitch,
                                 changes |-> paramChanges],
                     !.earlier = IF reportRun.pc = "done"
                                 THEN <<ReportOf(reportRun)>> ELSE <<>>]
         ELSE /\ reportRun.pc = "rms"
              /\ reportRun' = [reportRun EXCEPT
                     !.pc = "report",
                     !.used[c] = paramCompressor[c]]
    /\ UNCHANGED <<apvts, paramCompressor, paramChanges, rmsSwitch, pathVars,
                   gainVars, programVars, exportVars, signalVars>>

\* buildMetricsReport: the metrics of the two compressed signals and the
\* two parameter blocks.
Report_buildMetricsReport ==
    /\ reportRun.pc = "report"
    /\ reportRun' = [reportRun EXCEPT
           !.pc = "done",
           !.steady = (paramChanges = reportRun.values.changes),
           !.gainReduction = [c \in CompressorIds |->
                 applyCompression(reportRun.used[c].gainComputer, FileLevel)],
           !.report = [prefix \in Prefixes |->
                          formatParameterBlock(apvts, prefix)]]
    /\ UNCHANGED <<apvts, paramCompressor, paramChanges, rmsSwitch, pathVars,
                   gainVars, programVars, exportVars, signalVars>>

NextParams ==
    \/ \E prefix \in Prefixes, name \in ParameterNames :
          \E newValue \in ParameterValues(name) :
              Params_setParameter(prefix \o name, newValue)
    \/ \E newMode \in BOOLEAN : Params_updateCompressionMode(newMode)
    \/ \E c \in CompressorIds : Report_compress(c)
    \/ Report_buildMetricsReport

SpecParams == InitParams /\ [][NextParams]_vars

\* ------------------------------------------------------ the exporter alone
\* The output folder is missing, or exists and holds some older entries;
\* exportAll is then called up to MaxExports times.
InitExport ==
    /\ ProgramIdle
    /\ CompressorIdle
    /\ GainIdle
    /\ ParamsIdle
    /\ SignalIdle
    /\ exportFolder \in BOOLEAN
    /\ \E names \in SUBSET PreexistingNames :
         \E kind \in [names -> {OldFile, Directory}] :
            /\ (~exportFolder => names = {})
            /\ exportDisk = kind
    /\ lastExport = NoExport

DataExport_exportAll(c) ==
    /\ lastExport.n < MaxExports
    /\ LET x == exportAllToDisk(NewExport(exportDisk, exportFolder), c)
       IN  /\ exportDisk' = x.disk
           /\ exportFolder' = x.folder
           /\ lastExport' = [n |-> lastExport.n + 1,
                             inputFile |-> c.inputFile,
                             metricsText |-> c.metricsText, ok |-> x.ok,
                             error |-> x.error, written |-> x.written]
    /\ UNCHANGED <<pathVars, gainVars, paramVars, programVars, signalVars>>

\* The calls that differ in what exportAll does: an outcome is drawn only
\* for a step the call reaches.
ExportCalls ==
    {c \in [exportWavs : BOOLEAN, inputFile : InputFiles,
            metricsText : MetricsTexts, peakCompressed : BOOLEAN,
            rmsCompressed : BOOLEAN, sampleRateForWav : {0, 44100},
            out : ExportOutcomes] :
        LET wavs == c.out.folder /\ c.out.text /\ c.exportWavs
            peak == wavs /\ c.peakCompressed /\ c.sampleRateForWav > 0
            rms == wavs /\ c.rmsCompressed /\ c.sampleRateForWav > 0
                        /\ (c.peakCompressed => c.out.peakWav = "written")
        IN  /\ (~c.out.folder => c.out.text)
            /\ (~(c.out.folder /\ c.out.text) => c.exportWavs)
            /\ (~wavs => c.peakCompressed /\ c.rmsCompressed
                         /\ c.sampleRateForWav > 0)
            /\ (~peak => c.out.peakWav = "written")
            /\ (~rms => c.out.rmsWav = "written")}

NextExport == \E c \in ExportCalls : DataExport_exportAll(c)

SpecExport == InitExport /\ [][NextExport]_vars

\* ------------------------------------------------ the level detector alone
\* One LevelDetector, prepared, then handed buffers by either entry point.
DetectorInputs == {Rat(-2, 1), Rat(0, 1), Rat(1, 1)}

RECURSIVE BuffersOf(_, _)
BuffersOf(values, length) ==
    IF length = 0 THEN {<<>>}
    ELSE LET shorter == BuffersOf(values, length - 1)
         IN  shorter \cup {Append(b, v) : b \in {x \in shorter : Len(x) = length - 1},
                                          v \in values}

InitDetector ==
    /\ ProgramIdle
    /\ CompressorIdle
    /\ GainIdle
    /\ ParamsIdle
    /\ ExportIdle
    /\ EnergyIdle
    /\ ChunksIdle
    /\ \E a \in AlphaValues, r \in AlphaValues : detector = prepareDetector(a, r)
    /\ detectorCall = NoDetectorCall

LevelDetector_prepare ==
    /\ \E a \in AlphaValues, r \in AlphaValues : detector' = prepareDetector(a, r)
    /\ detectorCall' = [NoDetectorCall EXCEPT !.entry = "prepare"]
    /\ UNCHANGED <<pathVars, gainVars, paramVars, programVars, exportVars,
                   energyCall, chunkRun>>

LevelDetector_applyPeakDetector(src) ==
    /\ detectorCall.n < MaxDetectorCalls
    /\ LET r == applyPeakDetectorTo(detector, src)
       IN  /\ detector' = r.detector
           /\ detectorCall' = [n |-> detectorCall.n + 1,
                               entry |-> "applyPeakDetector",
                               src |-> src, out |-> r.src]
    /\ UNCHANGED <<pathVars, gainVars, paramVars, programVars, exportVars,
                   energyCall, chunkRun>>

LevelDetector_applyRMSDetector(src) ==
    /\ detectorCall.n < MaxDetectorCalls
    /\ LET r == applyRMSDetectorTo(detector, src)
       IN  /\ detector' = r.detector
           /\ detectorCall' = [n |-> detectorCall.n + 1,
                               entry |-> "applyRMSDetector",
                               src |-> src, out |-> r.src]
    /\ UNCHANGED <<pathVars, gainVars, paramVars, programVars, exportVars,
                   energyCall, chunkRun>>

NextDetector ==
    \/ LevelDetector_prepare
    \/ \E src \in BuffersOf(DetectorInputs, MaxDetectorSamples) :
          LevelDetector_applyPeakDetector(src)
    \/ \E src \in BuffersOf(DetectorInputs, MaxDetectorSamples) :
          LevelDetector_applyRMSDetector(src)

SpecDetector == InitDetector /\ [][NextDetector]_vars

\* -------------------------------------------------- the mean energy alone
\* Metrics::getAverageEnergy called once on a buffer of one or two channels
\* whose samples are silent, below the threshold, at it, or loud.
EnergySamples == {0, 1, silenceThreshold, -4}

EnergyBuffers ==
    UNION {[1..c -> [1..n -> EnergySamples]] :
              c \in 1..2, n \in 0..MaxMetricSamples}

InitEnergy ==
    /\ ProgramIdle
    /\ CompressorIdle
    /\ GainIdle
    /\ ParamsIdle
    /\ ExportIdle
    /\ DetectorIdle
    /\ ChunksIdle
    /\ \E b \in EnergyBuffers : energyCall = [NoEnergyCall EXCEPT !.buffer = b]

Metrics_getAverageEnergy ==
    /\ ~energyCall.n
    /\ energyCall' = [energyCall EXCEPT
                         !.n = TRUE,
                         !.result = getAverageEnergy(energyCall.buffer)]
    /\ UNCHANGED <<pathVars, gainVars, paramVars, programVars, exportVars,
                   detector, detectorCall, chunkRun>>

NextEnergy == Metrics_getAverageEnergy

SpecEnergy == InitEnergy /\ [][NextEnergy]_vars

\* ------------------------------------------------- the chunk loop alone
\* One processBufferInChunks call of compressAudioFile, with the samples,
\* on a file of one or two channels: the three audio buffers hold the
\* file, the gain-reduction buffer is cleared.
\* Largest sample count of a file compressed with its samples.
MaxAudioSamples == 3

\* A sample at full scale and one 60 dB over it, as a float file may hold.
AudioAmplitudes == {Rat(-1, 1), Rat(1024, 1)}

\* The Compressor a pass finds: its gain computer as the parameters set it
\* (ratio in tenths), its makeup gain, and the state its detector is in,
\* cleared or left by earlier blocks of the same mode.
ChunkCompressors(isRMS) ==
    {[gainComputer |-> c.g, makeup |-> c.makeup, maxGainReduction |-> Rat(0, 1),
      levelDetector |-> [prepareDetector(Rat(1, 4), Rat(1, 2)) EXCEPT !.state01 = c.state]] :
        c \in {[g |-> NewGainComputer, makeup |-> 0, state |-> Rat(0, 1)],
               [g |-> setKnee(setRatio(NewGainComputer, 40), 0), makeup |-> 6,
                state |-> IF isRMS THEN Rat(1, 2) ELSE Rat(-3, 1)],
               [g |-> setKnee(setRatio(setThreshold(NewGainComputer, -60), 240), 0),
                makeup |-> 0, state |-> Rat(0, 1)]}}

AudioFiles ==
    UNION {[1..c -> [1..n -> {Sample(a) : a \in AudioAmplitudes}]] :
              c \in 1..2, n \in 0..MaxAudioSamples}

InitChunks ==
    /\ ProgramIdle
    /\ CompressorIdle
    /\ GainIdle
    /\ ParamsIdle
    /\ ExportIdle
    /\ DetectorIdle
    /\ EnergyIdle
    /\ \E file \in AudioFiles, isRMS \in BOOLEAN, size \in 1..MaxChunkSize :
          \E c \in ChunkCompressors(isRMS) :
             chunkRun =
                [pc |-> "loop", isRMS |-> isRMS, chunkSize |-> size,
                 numChannels |-> Len(file), numSamples |-> Len(file[1]),
                 start |-> 0, compressor |-> c, entry |-> c, chunks |-> <<>>,
                 channels |-> {}, sidechain |-> <<>>,
                 signals |-> [b \in {"uncompressedSignal", "peakCompressedSignal",
                                     "rmsCompressedSignal"} |-> file],
                 grBuffer |-> [ch \in DOMAIN file |->
                                 [i \in DOMAIN file[1] |-> NegInfinity]]]

\* One pass of the loop.  Channel 1 of the chunk buffer is the right
\* channel of a two-channel file; a one-channel chunk buffer has no channel
\* 1 and the read finds whatever is there.
Chunks_chunk ==
    /\ chunkRun.pc = "loop"
    /\ chunkRun.start < chunkRun.numSamples
    /\ LET n == chunkLength(chunkRun.chunkSize, chunkRun.numSamples, chunkRun.start)
           audioBuffer == audioBufferOf(chunkRun.isRMS)
       IN  \E right \in IF chunkRun.numChannels > 1
                          THEN {[i \in 1..n |->
                                  chunkRun.signals[audioBuffer][2][chunkRun.start + i].amp]}
                          ELSE [1..n -> AudioAmplitudes] :
              chunkRun' = processChunk(chunkRun, audioBuffer, right)
    /\ UNCHANGED <<pathVars, gainVars, paramVars, programVars, exportVars,
                   detector, detectorCall, energyCall>>

\* The read of channel 1 of a one-channel chunk buffer faults.
Chunks_fault ==
    /\ chunkRun.pc = "loop"
    /\ chunkRun.start < chunkRun.numSamples
    /\ chunkRun.numChannels = 1
    /\ chunkRun' = [chunkRun EXCEPT !.pc = "crashed", !.channels = {0, 1}]
    /\ UNCHANGED <<pathVars, gainVars, paramVars, programVars, exportVars,
                   detector, detectorCall, energyCall>>

\* The loop is over: prepareForRealTimeProcessing, and the call returns.
Chunks_return ==
    /\ chunkRun.pc = "loop"
    /\ chunkRun.start >= chunkRun.numSamples
    /\ chunkRun' = [chunkRun EXCEPT !.pc = "done"]
    /\ UNCHANGED <<pathVars, gainVars, paramVars, programVars, exportVars,
                   detector, detectorCall, energyCall>>

NextChunks ==
    \/ Chunks_chunk
    \/ Chunks_fault
    \/ Chunks_return

SpecChunks == InitChunks /\ [][NextChunks]_vars

\* ------------------------------------------------------------ properties
\* A worker that has been started and has not run to its end.
WorkerRunning(t) == thread[t].pc \in {"spawned"} \cup RunPositions

\* The worker is inside processBufferInChunks on compressor c.
OfflineOn(t, c) == thread[t].pc = Stage(c, "chunks")

\* C1: a run that ended by a throw (loader, exporter or any exception in
\* between) has left isProcessing() false.
C1_FailedRunLeavesNotProcessing ==
    \A t \in ThreadIds : thread[t].pc = "threw" => ~processing

\* C2: from the moment the extraction worker is started until its run has
\* finished both compressors are bypassed, and the audio thread is never
\* inside process() of a compressor the worker is compressing with.
C2_RealTimeExcludedDuringRun ==
    \A t \in ThreadIds :
        /\ WorkerRunning(t) => \A c \in CompressorIds : compressor[c].bypassed
        /\ \A c \in CompressorIds : OfflineOn(t, c) => pcRT # c

\* C3: at most one extraction run exists at a time: a worker is started only
\* while isProcessing() is false, and no worker is started before the
\* previous one has run to its end.
C3_AtMostOneRun ==
    /\ \A t, u \in ThreadIds : Alive(t) /\ Alive(u) => t = u
    /\ \A t \in ThreadIds : thread[t].pc = "spawned" => ~processing

\* C3's case: a second worker runs after the handler waited for the first.
C3_SecondRunAfterJoin ==
    /\ thread[1].pc = "exited"
    /\ InRun(2)
    /\ processing

\* C4: every compressor that run re-targeted for the file has its real-time
\* configuration back once run has returned or thrown.
C4_CompressorsRestored ==
    \A t \in ThreadIds :
        thread[t].pc \in {"returned", "threw"} =>
            \A c \in CompressorIds :
                c \in thread[t].calls => RealTimeReady(compressor[c])

\* C5: once the compression stage is over, the uncompressed buffer, the two
\* compressed buffers and the two gain-reduction buffers have the same
\* channel count and the same sample count.
C5_SameShapeAfterCompression ==
    \A t \in ThreadIds :
        (\/ thread[t].pc \in {"metrics", "export"}
         \/ thread[t].pc \in {"returned", "threw"} /\ "metrics" \in thread[t].calls)
        => \A a, b \in BufferNames :
               /\ signals[a].numChannels = signals[b].numChannels
               /\ signals[a].numSamples = signals[b].numSamples

\* C5's case: a file whose length is no multiple of the chunk size has been
\* compressed.
C5_CompressedOddLength ==
    \E t \in ThreadIds :
        /\ thread[t].pc = "metrics"
        /\ signals["uncompressedSignal"].numSamples > 0
        /\ signals["uncompressedSignal"].numSamples % cfgChunkSize # 0
        /\ signals["rmsGainReductionSignal"] = signals["uncompressedSignal"]

\* The progress value of a run at each of its positions.
ProgressAt(t) ==
    CASE thread[t].pc \in {"check", "load"} -> {0}
      [] thread[t].pc \in {"compress", "peak_prepare", "peak_chunks",
                           "rms_prepare", "rms_chunks"} -> {3}
      [] thread[t].pc = "metrics" -> {6}
      [] thread[t].pc = "export" -> {8}
      [] thread[t].pc = "returned" ->
             IF "exporter" \in thread[t].calls THEN {10} ELSE {0}
      [] thread[t].pc = "threw" -> {0, 3, 6, 8}
      [] OTHER -> ProgressValues

\* C6: within a run progress never decreases; it is 0 at the start, 0.3
\* after loading, 0.6 after compression, 0.8 after the metrics and 1.0 after
\* the export, and it is 1.0 only if the export succeeded.
C6_ProgressMilestones ==
    /\ [](\A t \in ThreadIds : progress \in ProgressAt(t))
    /\ [][\A t \in ThreadIds :
            InRun(t) /\ thread'[t].pc \in RunPositions \cup {"returned", "threw"}
                => progress' >= progress]_vars

\* C6's case: a run went through all five milestones.
C6_RunCompleted ==
    \E t \in ThreadIds :
        /\ thread[t].pc = "returned"
        /\ "exporter" \in thread[t].calls
        /\ progress = 10

\* C7: when the loader fails, run throws the loader's message, and neither
\* compressor has been touched nor anything computed or exported.
C7_LoaderFailure ==
    \A t \in ThreadIds :
        thread[t].loadFailed =>
            /\ thread[t].pc = "threw"
            /\ thread[t].loaderError \in {ErrFileMissing, ErrNoReader, ErrChannels}
            /\ thread[t].thrown = thread[t].loaderError
            /\ thread[t].calls = {"loader"}

\* C7's case: no reader could be created for the chosen file.
C7_ReaderFailed ==
    \E t \in ThreadIds :
        /\ thread[t].loadFailed
        /\ thread[t].loaderError = ErrNoReader

\* C8: run on an empty path or on a file that does not exist returns
\* without throwing, with processing false and no collaborator called.
C8_MissingFileReturns ==
    [][\A t \in ThreadIds :
          (/\ thread[t].pc = "check"
           /\ thread'[t] # thread[t]
           /\ (selectedFile = EmptyFile \/ ~fileOnDisk))
          => /\ thread'[t].pc = "returned"
             /\ thread'[t].calls = {}
             /\ ~processing'
             /\ ~crashed'
             /\ signals' = signals
             /\ compressor' = compressor
             /\ metrics' = metrics]_vars

\* C8's case: run was called with an empty path and has returned.
C8_RunReturnedEarly ==
    \E t \in ThreadIds :
        /\ thread[t].pc = "returned"
        /\ thread[t].calls = {}
        /\ thread[t].file = EmptyFile
        /\ selectedFile = EmptyFile
        /\ ~processing

\* C9: when the export fails, run throws the exporter's message and the
\* progress of that run does not reach 1.0.
C9_ExportFailure ==
    \A t \in ThreadIds :
        thread[t].exportFailed =>
            /\ thread[t].pc = "threw"
            /\ thread[t].exportError \in {ErrFolder, ErrTextStream, ErrWavRate, ErrWavWriter}
            /\ thread[t].thrown = thread[t].exportError
            /\ progress = 8

\* C9's case: the metrics text file could not be opened.
C9_TextStreamFailed ==
    \E t \in ThreadIds :
        /\ thread[t].exportFailed
        /\ thread[t].exportError = ErrTextStream

\* The five buffers are usable: none missing, none empty, all of one shape.
FiveSignalsUsable ==
    LET p == MetricPointers(metrics) IN
    /\ \A i \in 1..5 : p[i] # "null"
    /\ \A i \in 1..5 : signals[p[i]].numSamples # 0
    /\ \A i, j \in 1..5 :
           /\ signals[p[i]].numChannels = signals[p[j]].numChannels
           /\ signals[p[i]].numSamples = signals[p[j]].numSamples

\* C10: extractMetrics changes no metric record when one of the five signals
\* is null, has zero samples, or differs from another in channel or sample
\* count.
C10_InvalidSignalsLeaveRecords ==
    [][(extractTick' # extractTick /\ ~FiveSignalsUsable)
          => metrics' = metrics]_vars

\* C10's case: extractMetrics was called on five non-empty buffers of equal
\* channel count, one of them longer than the others, with earlier results
\* in the records.
C10_ExtractedOnMismatch ==
    /\ extractTick
    /\ metrics = setSignals(StaleMetrics, "none")
    /\ \A b \in BufferNames : signals[b].numChannels = 2
    /\ signals["rmsCompressedSignal"].numSamples = 2
    /\ \A b \in BufferNames \ {"rmsCompressedSignal"} : signals[b].numSamples = 1

\* The stages a block goes through, in order, from the side chain to the
\* audio, with the given two middle stages.
SignalChain(first, second) ==
    <<"inputGain", "abs", first, second, "makeup", "toGain", "multiply">>

\* C11: in peak mode the gain computer works on the side chain first and
\* the detector on its result second; in RMS mode the detector works first
\* and the gain computer second; in both the side chain is built before the
\* two and the gain is applied to the audio after them.
C11_StageOrder ==
    (dspCompressor.buffer # <<>>) =>
        /\ ~lastCall.isRMSmode =>
               dspCompressor.buffer = SignalChain("gainComputer", "peakDetector")
        /\ lastCall.isRMSmode =>
               dspCompressor.buffer = SignalChain("rmsDetector", "gainComputer")
        /\ lastCall.entry = "chunk" =>
               dspCompressor.gainReductionSignal =
                   IF lastCall.isRMSmode
                     THEN <<"abs", "rmsDetector", "gainComputer", "toGain">>
                     ELSE <<"abs", "gainComputer", "peakDetector", "toGain">>

\* C11's case: a block was compressed in peak mode after one in RMS mode.
C11_PeakAfterRMS ==
    /\ dspCompressor.buffer = SignalChain("gainComputer", "peakDetector")
    /\ dspCompressor.gainReductionSignal =
           <<"abs", "rmsDetector", "gainComputer", "toGain">>
    /\ lastCall.entry = "process"

\* C19: process on a bypassed compressor leaves the audio buffer, the
\* detector state, the scratch buffers, the gain-reduction signal and
\* maxGainReduction as they were.
C19_BypassedProcessIsNoOp ==
    [][(/\ lastCall'.n # lastCall.n
        /\ lastCall'.entry = "process"
        /\ dspCompressor.bypassed)
          => dspCompressor' = dspCompressor]_vars

\* C19's case: process was called on a bypassed compressor that had
\* compressed blocks before.
C19_ProcessedWhileBypassed ==
    /\ lastCall.entry = "process"
    /\ dspCompressor.bypassed
    /\ dspCompressor.buffer = <<>>
    /\ dspCompressor.state01 > 0
    /\ dspCompressor.gainReductionSignal # <<>>
    /\ dspCompressor.maxGainReduction = "minimum"

\* C17: with overshoot = level - threshold, applyCompression returns 0 when
\* overshoot <= -knee/2, 0.5*slope*(overshoot + knee/2)^2/knee when
\* -knee/2 < overshoot <= knee/2, and slope*overshoot when overshoot >
\* knee/2; slope is 1/ratio - 1 for the ratio the computer holds.
C17_TransferFunction ==
    [][gainCall'.n # gainCall.n =>
         LET o == gainCall'.input - gainComputer.threshold
             k == gainComputer.knee
             sn == gainComputer.slope[1]
             sd == gainComputer.slope[2]
         IN /\ 2 * o <= -k => RatEq(gainCall'.output, Rat(0, 1))
            /\ (-k < 2 * o /\ 2 * o <= k) =>
                   RatEq(gainCall'.output,
                         Rat(sn * (2 * o + k) * (2 * o + k), 8 * k * sd))
            /\ 2 * o > k => RatEq(gainCall'.output, Rat(sn * o, sd))
            /\ gainComputer.ratio # NegInfinity =>
                   RatEq(gainComputer.slope,
                         Rat(gainComputer.ratio[2] - gainComputer.ratio[1],
                             gainComputer.ratio[1]))]_vars

\* C17's case: a level inside a 4 dB knee around -12 dB at ratio 4 gave an
\* attenuation strictly between 0 and the one above the knee.
C17_InsideKnee ==
    /\ gainCall.n
    /\ gainComputer.threshold = -12
    /\ gainComputer.knee = 4
    /\ RatEq(gainComputer.ratio, Rat(4, 1))
    /\ gainCall.input = -12
    /\ RatEq(gainCall.output, Rat(-3, 8))

\* C18: after setRatio with a value above 23.9 the slope is exactly -1.
C18_LimiterSlope ==
    gainComputer.ratio = NegInfinity => RatEq(gainComputer.slope, Rat(-1, 1))

\* The six settings a compressor holds, as numbers.
Settings(c) ==
    [threshold |-> Rat(c.gainComputer.threshold, 1),
     ratio |-> c.gainComputer.ratio,
     knee |-> Rat(c.gainComputer.knee, 1),
     attack |-> c.attackTimeInSeconds,
     release |-> c.releaseTimeInSeconds,
     makeup |-> Rat(c.makeup, 1)]

CompressorOf(prefix) ==
    IF prefix = "peak_" THEN "peakCompressor" ELSE "rmsCompressor"

\* C12: a change of a peak_* parameter changes at most the setting of that
\* name in the peak compressor and nothing in the RMS compressor; a change
\* of an rms_* parameter changes nothing in the peak compressor.
C12_ModesIndependent ==
    [][\A prefix \in Prefixes, name \in ParameterNames :
          apvts'[prefix \o name] # apvts[prefix \o name] =>
              /\ \A c \in CompressorIds \ {CompressorOf(prefix)} :
                     paramCompressor'[c] = paramCompressor[c]
              /\ \A other \in ParameterNames \ {name} :
                     Settings(paramCompressor'[CompressorOf(prefix)])[other] =
                         Settings(paramCompressor[CompressorOf(prefix)])[other]
              /\ RatEq(Settings(paramCompressor'[CompressorOf(prefix)])[name],
                       Rat(apvts'[prefix \o name],
                           IF name = "ratio" THEN 10
                           ELSE IF name \in {"attack", "release"} THEN 1000
                           ELSE 1))]_vars

\* C12's case: the peak knee was changed while the RMS compressor held
\* the RMS parameters.
C12_PeakKneeChanged ==
    /\ paramChanges = 1
    /\ apvts["peak_knee"] = 6
    /\ paramCompressor["peakCompressor"].gainComputer.knee = 6
    /\ rmsSwitch
    /\ apvts["rms_knee"] = 0
    /\ paramCompressor["rmsCompressor"].gainComputer.knee = 0
    /\ paramCompressor["rmsCompressor"].gainComputer.threshold = 0

\* The numbers printed for a mode are the settings the compressor had.
Reported(block, c) ==
    /\ RatEq(Settings(c).threshold, Rat(block.threshold, 1))
    /\ RatEq(Settings(c).ratio, Rat(block.ratio, 10))
    /\ RatEq(Settings(c).knee, Rat(block.knee, 1))
    /\ RatEq(Settings(c).attack, Rat(block.attack, 1000))
    /\ RatEq(Settings(c).release, Rat(block.release, 1000))
    /\ RatEq(Settings(c).makeup, Rat(block.makeup, 1))

\* C16: the six values the report prints for each detector mode are the
\* values that mode's compressor used while compressing in that run.
C16_ReportShowsUsedValues ==
    reportRun.pc = "done" =>
        \A prefix \in Prefixes :
            Reported(reportRun.report[prefix], reportRun.used[CompressorOf(prefix)])

\* The k-th name makeUniqueFile may give: the plain one, then _2, _3, ...
Candidate(inputFile, suffix, extension, k) ==
    IF k = 1 THEN inputFile.stem \o "_" \o suffix \o extension
    ELSE inputFile.stem \o "_" \o suffix \o "_" \o ToString(k) \o extension

\* name is the first candidate that does not exist as a file on disk.
FirstFree(disk, name, inputFile, suffix, extension) ==
    \E k \in 1..(Cardinality(DOMAIN disk) + 1) :
        /\ name = Candidate(inputFile, suffix, extension, k)
        /\ ~existsAsFile(disk, name)
        /\ \A j \in 1..(k - 1) :
               existsAsFile(disk, Candidate(inputFile, suffix, extension, j))

ExtensionOf(suffix) == IF suffix = "Metrics" THEN ".txt" ELSE ".wav"

\* C14: an export leaves every entry the folder had as it was; each file it
\* creates is named by the first free candidate (<stem>_<suffix><ext>, then
\* _2, _3, ...) given the files present or created before it; and when the
\* previous export wrote a metrics file for the same input file, the new
\* metrics file has another name and the previous one keeps its text.
C14_NeverOverwrites ==
    [][lastExport'.n # lastExport.n =>
          /\ \A name \in DOMAIN exportDisk :
                 /\ name \in DOMAIN exportDisk'
                 /\ exportDisk'[name] = exportDisk[name]
          /\ \A i \in 1..Len(lastExport'.written) :
                 LET w == lastExport'.written[i]
                     before == {lastExport'.written[j].name : j \in 1..(i - 1)}
                     disk == [name \in DOMAIN exportDisk \cup before |->
                                 exportDisk'[name]]
                 IN  FirstFree(disk, w.name, lastExport'.inputFile, w.suffix,
                               ExtensionOf(w.suffix))
          /\ (/\ lastExport.written # <<>>
              /\ lastExport'.written # <<>>
              /\ lastExport'.inputFile = lastExport.inputFile) =>
                 /\ lastExport'.written[1].name # lastExport.written[1].name
                 /\ exportDisk'[lastExport.written[1].name] =
                        lastExport.metricsText]_vars

\* C14's case: a second run on the same file wrote its metrics file next
\* to the first run's.
C14_SecondMetricsFile ==
    /\ lastExport.n = 2
    /\ lastExport.inputFile.extension = ".wav"
    /\ lastExport.written # <<>>
    /\ lastExport.written[1].name = "song_Metrics_2.txt"
    /\ "song_Metrics.txt" \in DOMAIN exportDisk
    /\ exportDisk["song_Metrics.txt"] = "report A"
    /\ exportDisk["song_Metrics_2.txt"] = "report B"

WavErrors == {ErrWavRate, ErrWavWriter}

\* C15: the metrics text is the first file an export creates; an export
\* that failed on a WAV returned false with a message, and its metrics
\* file, and the peak WAV when it was the RMS WAV that failed, are on
\* disk with their content.
C15_NotTransactional ==
    /\ \A i \in 1..Len(lastExport.written) :
           (lastExport.written[i].suffix = "Metrics") <=> (i = 1)
    /\ (lastExport.n > 0 /\ lastExport.error \in WavErrors) =>
           /\ ~lastExport.ok
           /\ lastExport.written # <<>>
           /\ \A i \in 1..Len(lastExport.written) :
                  LET w == lastExport.written[i]
                  IN  /\ w.name \in DOMAIN exportDisk
                      /\ w.suffix = "Metrics" =>
                             exportDisk[w.name] = lastExport.metricsText
                      /\ (w.suffix = "Peak_compressed"
                            /\ Len(lastExport.written) > i) =>
                             exportDisk[w.name] = "Peak_compressed"

\* C15's case: the RMS WAV failed after the text and the peak WAV had been
\* written.
C15_RmsWavFailed ==
    /\ lastExport.n > 0
    /\ lastExport.error = ErrWavWriter
    /\ Len(lastExport.written) = 2
    /\ lastExport.written[2].suffix = "Peak_compressed"
    /\ exportDisk[lastExport.written[2].name] = "Peak_compressed"
    /\ exportDisk[lastExport.written[1].name] = lastExport.metricsText

CompressPositions ==
    {"compress", "peak_prepare", "peak_chunks", "rms_prepare", "rms_chunks"}

C13_SameReportForSameParameters ==
    (/\ reportRun.pc = "done"
     /\ reportRun.earlier # <<>>
     /\ reportRun.steady
     /\ reportRun.earlier[1].steady
     /\ reportRun.earlier[1].values = ReportOf(reportRun).values) =>
        /\ reportRun.earlier[1].report = reportRun.report
        /\ \A c \in CompressorIds :
               RatEq(reportRun.earlier[1].gainReduction[c],
                     reportRun.gainReduction[c])

\* C30: with knee 0 (set through setKnee, so that kneeHalf is 0 too) no
\* level falls in the knee branch, the result has no zero divisor, and it
\* is 0 at or below the threshold and slope*overshoot above it.
C30_HardKnee ==
    [][(gainCall'.n # gainCall.n /\ gainComputer.knee = 0) =>
         LET overshoot == Rat(gainCall'.input - gainComputer.threshold, 1)
         IN /\ ~(/\ ~RatLe(overshoot, RatNeg(gainComputer.kneeHalf))
                 /\ RatLe(overshoot, gainComputer.kneeHalf))
            /\ gainCall'.output[2] # 0
            /\ overshoot[1] <= 0 => RatEq(gainCall'.output, Rat(0, 1))
            /\ overshoot[1] > 0 =>
                   RatEq(gainCall'.output,
                         RatMul(gainComputer.slope, overshoot))]_vars

\* C30's case: a level 8 dB above the threshold went through a computer
\* with knee 0 at ratio 4.
C30_AboveHardKnee ==
    /\ gainCall.n
    /\ gainComputer.knee = 0
    /\ gainComputer.threshold = -20
    /\ RatEq(gainComputer.ratio, Rat(4, 1))
    /\ gainCall.input = -12
    /\ RatEq(gainCall.output, Rat(-6, 1))

\* C22: applyPeakDetector takes the samples in order; for each sample x it
\* uses the attack coefficient when x is below the state and the release
\* coefficient otherwise, sets state = alpha*state + (1 - alpha)*x and
\* writes the new state over the sample.  The first sample of a call starts
\* from the state the previous call left, and prepare sets the state to 0.
C22_PeakDetector ==
    [][/\ detectorCall'.entry = "applyPeakDetector" /\ detectorCall'.n # detectorCall.n =>
            LET src == detectorCall'.src
                out == detectorCall'.out
            IN  /\ Len(out) = Len(src)
                /\ \A i \in 1..Len(src) :
                      LET state == IF i = 1 THEN detector.state01 ELSE out[i - 1]
                          alpha == IF RatLt(src[i], state)
                                     THEN detector.alphaAttack
                                     ELSE detector.alphaRelease
                      IN  RatEq(out[i],
                                RatAdd(RatMul(alpha, state),
                                       RatMul(RatAdd(Rat(1, 1), RatNeg(alpha)), src[i])))
                /\ detector'.state01 =
                       IF src = <<>> THEN detector.state01 ELSE out[Len(out)]
       /\ detectorCall'.entry = "prepare" => RatEq(detector'.state01, Rat(0, 1))]_vars

\* A second call that starts from the state the first one left (-3/2),
\* attacks on its first sample and releases on its second.
C22_AttackThenRelease ==
    /\ detectorCall.entry = "applyPeakDetector"
    /\ detectorCall.n = 2
    /\ detector.alphaAttack = Rat(1, 4)
    /\ detector.alphaRelease = Rat(1, 2)
    /\ detectorCall.src = <<Rat(-2, 1), Rat(1, 1)>>
    /\ detectorCall.out = <<Rat(-15, 8), Rat(-7, 16)>>
    /\ detector.state01 = Rat(-7, 16)

\* The coefficient processRMSBranched uses for a sample x on a mean square
\* state, and the mean square it leaves.
C23_Smoothed(d, state, x, attack) ==
    LET inSquared == RatMul(x, x)
        alpha == IF attack THEN d.alphaAttack ELSE d.alphaRelease
    IN  RatAdd(RatMul(alpha, state),
               RatMul(RatAdd(Rat(1, 1), RatNeg(alpha)), inSquared))

\* The mean square a call's i-th sample starts from: the detector's state
\* for the first, twice the square of the level written for the one before.
C23_StateBefore(d, out, i) ==
    IF i = 1 THEN d.state01 ELSE RatMul(Rat(2, 1), out[i - 1])

\* C23 (as the code has it): applyRMSDetector keeps state in the squared
\* domain and, for each sample x, uses the attack coefficient when x*x is
\* ABOVE the state and the release coefficient otherwise: the comparison
\* is the opposite of the peak detector's.
C23_RMSDetector ==
    [][detectorCall'.entry = "applyRMSDetector" /\ detectorCall'.n # detectorCall.n =>
          \A i \in 1..Len(detectorCall'.src) :
             LET state == C23_StateBefore(detector, detectorCall'.out, i)
                 x == detectorCall'.src[i]
             IN  RatEq(RatMul(Rat(2, 1), detectorCall'.out[i]),
                       C23_Smoothed(detector, state, x, RatLt(state, RatMul(x, x))))]_vars

\* An RMS call on a louder sample then on silence, with coefficients that
\* differ: the mean square rises by attack (3/4), then falls by release.
C23_RiseThenFall ==
    /\ detectorCall.entry = "applyRMSDetector"
    /\ detectorCall.n = 1
    /\ detector.alphaAttack = Rat(1, 4)
    /\ detector.alphaRelease = Rat(1, 2)
    /\ detectorCall.src = <<Rat(1, 1), Rat(0, 1)>>
    /\ detectorCall.out = <<Rat(3, 8), Rat(3, 16)>>

\* C23 (as stated): applyRMSDetector uses the attack coefficient when x*x
\* is below the state and the release coefficient otherwise.
C23_SameComparisonAsPeak ==
    [][detectorCall'.entry = "applyRMSDetector" /\ detectorCall'.n # detectorCall.n =>
          \A i \in 1..Len(detectorCall'.src) :
             LET state == C23_StateBefore(detector, detectorCall'.out, i)
                 x == detectorCall'.src[i]
             IN  RatEq(RatMul(Rat(2, 1), detectorCall'.out[i]),
                       C23_Smoothed(detector, state, x, RatLt(RatMul(x, x), state)))]_vars

\* The samples of a buffer that are at or above the silence threshold.
C24_Counted(buffer) ==
    {i \in (DOMAIN buffer) \X (1..Len(buffer[1])) :
        Abs(buffer[i[1]][i[2]]) >= silenceThreshold}

\* C24 (as stated): getAverageEnergy returns the sum of the squares of the
\* samples at or above the silence threshold divided by the number of those
\* samples, whenever there is such a sample.
C24_GatedDenominator ==
    energyCall.n /\ C24_Counted(energyCall.buffer) # {} =>
        RatEq(energyCall.result,
              Rat(meanSquareOf(energyCall.buffer),
                  Cardinality(C24_Counted(energyCall.buffer))))

\* The chunk a pass of the loop has just compressed, if it has.
C21_Chunk == chunkRun'.chunks[Len(chunkRun'.chunks)]

\* C21: processBufferInChunks compresses consecutive chunks in order, each
\* of chunkSize samples but a shorter last one; every pass writes the
\* compressed audio and the gain reduction of its chunk at the chunk's own
\* offset and nothing else, and the call returns after
\* ceil(numSamples / chunkSize) chunks, every sample compressed once.
C21_ChunksCoverFile ==
    [][/\ chunkRun'.chunks # chunkRun.chunks =>
            LET start == C21_Chunk[1]
                n == C21_Chunk[2]
                audio == audioBufferOf(chunkRun.isRMS)
            IN  /\ chunkRun'.chunks = Append(chunkRun.chunks, <<start, n>>)
                /\ start = Len(chunkRun.chunks) * chunkRun.chunkSize
                /\ n > 0 /\ start + n <= chunkRun.numSamples
                /\ n = chunkRun.chunkSize \/ start + n = chunkRun.numSamples
                /\ \A ch \in 1..chunkRun.numChannels, i \in 1..chunkRun.numSamples :
                      IF i > start /\ i <= start + n
                        THEN /\ chunkRun'.grBuffer[ch][i] =
                                   decibelsToGain(chunkRun'.sidechain[i - start])
                             /\ chunkRun'.signals[audio][ch][i] =
                                   multiply(chunkRun.signals[audio][ch][i],
                                            decibelsToGain(
                                               RatAdd(chunkRun'.sidechain[i - start],
                                                      Rat(chunkRun.compressor.makeup, 1))))
                        ELSE /\ chunkRun'.grBuffer[ch][i] = chunkRun.grBuffer[ch][i]
                             /\ chunkRun'.signals[audio][ch][i] =
                                   chunkRun.signals[audio][ch][i]
       /\ chunkRun'.pc = "done" =>
            /\ Len(chunkRun'.chunks) * chunkRun.chunkSize >= chunkRun.numSamples
            /\ (Len(chunkRun'.chunks) - 1) * chunkRun.chunkSize < chunkRun.numSamples
                  \/ chunkRun.numSamples = 0
            /\ \A i \in 0..chunkRun.numSamples - 1 :
                  Cardinality({k \in DOMAIN chunkRun'.chunks :
                                  /\ chunkRun'.chunks[k][1] <= i
                                  /\ i < chunkRun'.chunks[k][1] + chunkRun'.chunks[k][2]}) = 1]_vars

\* A two-channel file of three samples went through in a chunk of two and
\* a chunk of one.
C21_ShorterLastChunk ==
    /\ chunkRun.pc = "done"
    /\ chunkRun.numChannels = 2
    /\ chunkRun.chunks = <<(<<0, 2>>), (<<2, 1>>)>>
    /\ \A i \in 1..3 : chunkRun.grBuffer[1][i] # NegInfinity

\* C25 (as stated): the chunk compression of an accepted file, mono
\* included, reads and writes only channel indices below the file's channel
\* count.
C25_ChannelsInRange ==
    chunkRun.channels \subseteq 0..chunkRun.numChannels - 1

\* The amplitudes of one channel of a buffer.
Amplitudes(channel) == [i \in DOMAIN channel |-> channel[i].amp]

\* The file, compressed as one chunk by the Compressor the call found; the
\* side chain of a one-channel file is that channel.
OneChunk ==
    applyCompressionTo(chunkRun.entry, chunkRun.isRMS,
                       chunkRun.signals.uncompressedSignal,
                       Amplitudes(chunkRun.signals.uncompressedSignal[
                                     IF chunkRun.numChannels > 1 THEN 2 ELSE 1]))

\* The call has returned what compressing the file as one chunk returns.
SameAsOneChunk ==
    /\ chunkRun.signals[audioBufferOf(chunkRun.isRMS)] = OneChunk.buffer
    /\ chunkRun.grBuffer = OneChunk.gainReductionSignal

C27_TwoChannelsSame ==
    chunkRun.pc = "done" /\ chunkRun.numSamples > 0 /\ chunkRun.numChannels = 2 =>
        SameAsOneChunk

\* C28: no pass of the chunk loop changes the uncompressed signal.
C28_UncompressedUntouched ==
    [][chunkRun'.signals.uncompressedSignal = chunkRun.signals.uncompressedSignal]_vars

\* A call has returned, and its audio buffer is no longer the file.
C28_CopyCompressed ==
    /\ chunkRun.pc = "done"
    /\ chunkRun.signals[audioBufferOf(chunkRun.isRMS)] #
          chunkRun.signals.uncompressedSignal
    /\ chunkRun.signals[audioBufferOf(~chunkRun.isRMS)] =
          chunkRun.signals.uncompressedSignal

\* The gain-reduction samples the loop has written so far.
WrittenGains ==
    {chunkRun.grBuffer[ch][i] :
        ch \in 1..chunkRun.numChannels,
        i \in 1..(IF chunkRun.start < chunkRun.numSamples
                    THEN chunkRun.start ELSE chunkRun.numSamples)}

Compressing == chunkRun.pc \in {"loop", "done"} /\ chunkRun.chunks # <<>>

\* C29 (as the code has it): with ratio >= 1 and knee >= 0, from a
\* prepared detector, every attenuation is <= 0 dB in both modes and
\* getMaxGainReduction() is never positive; every gain-reduction sample is
\* a linear gain in [0, 1], and it is 0 exactly when the attenuation is at
\* or below -100 dB.
C29_NeverAmplifies ==
    Compressing =>
        /\ \A i \in DOMAIN chunkRun.sidechain :
              RatLe(chunkRun.sidechain[i], Rat(0, 1))
        /\ RatLe(chunkRun.compressor.maxGainReduction, Rat(0, 1))
        /\ \A g \in WrittenGains : g = NegInfinity \/ RatLe(g, Rat(0, 1))
        /\ \A k \in DOMAIN chunkRun.sidechain :
              LET last == chunkRun.chunks[Len(chunkRun.chunks)]
              IN  chunkRun.grBuffer[1][last[1] + k] = NegInfinity
                     <=> RatLe(chunkRun.sidechain[k], Rat(-100, 1))

\* A call on a file of two channels has returned with one gain-reduction
\* sample strictly between 0 and 1 and another that is 0.
C29_AttenuatedAndMuted ==
    /\ chunkRun.pc = "done"
    /\ chunkRun.numChannels = 2
    /\ NegInfinity \in WrittenGains
    /\ \E g \in WrittenGains : g # NegInfinity /\ g[1] < 0

\* C29 (as stated): moreover every gain-reduction sample is a linear gain
\* in (0, 1]: none is 0.  Stated for files of two channels, whose side
\* chain is made of samples of the file only.
C29_GainInHalfOpenUnit ==
    Compressing /\ chunkRun.numChannels = 2 =>
        \A g \in WrittenGains : g # NegInfinity /\ RatLe(g, Rat(0, 1))

\* The completion callback of worker t has run: the worker posted it and
\* the message thread has no callback left to run.
CallbackRan(t) == thread[t].pc = "exited" /\ pendingCallbacks = 0

\* C26 (as stated): every extraction started by handleExtractMetrics
\* eventually runs its completion callback, whether run returns or throws.
C26_CallbackEventuallyRuns ==
    \A t \in ThreadIds : (thread[t].pc = "spawned") ~> CallbackRan(t)

\* What holds of C26: once run has returned, the callback is run, unless
\* another worker's exception ends the process first.
C26_CallbackAfterReturn ==
    \A t \in ThreadIds : (thread[t].pc = "returned") ~> (CallbackRan(t) \/ crashed)

====
